---- MODULE Spec2Model ----
(***************************************************************************)
(* Real-time audio analysis and adaptive sample triggering                  *)
(* (src/audioUtils.ts): the streaming buffer aggregator                     *)
(* ContextAwareLyriaSession and the trigger scheduler SmartSampleTrigger.   *)
(*                                                                          *)
(* Time is the value of Date.now() in milliseconds.  Synchronous code and   *)
(* chains of already-resolved promises take no time; time passes only in    *)
(* the Tick actions, between the callbacks of the JavaScript event loop.    *)
(***************************************************************************)
EXTENDS Integers, Sequences, FiniteSets, TLC

VARIABLES
    now,                      \* Date.now()
    ticks,                    \* number of clock advances so far (bounded)
    \* ---- ContextAwareLyriaSession
    audioBufferQueue,         \* sequence of the lengths (in frames) of the queued buffers
    accumulatedBufferLength,
    lastAnalysisTime,
    cycles,                   \* history: every performAnalysis call that reached the analyzer
                              \* or was rejected on the way
    delivered,                \* sequence of cycle numbers handed to onContextUpdateCallback
    ingested,                 \* number of handleNewLyriaAudioBuffer calls so far
    lastCall,                 \* what the latest handleNewLyriaAudioBuffer call did
    \* ---- SmartSampleTrigger
    samples,                  \* the catalog: a sequence of sample ids
    newSamples,               \* history: the argument of the latest updateSamples call
    lastTriggerTimes,         \* Map<string, number>: a function on the ids that have an entry
    passes,                   \* every evaluateAndTrigger call so far, in order of its start
    plays,                    \* history: the playSample calls made
    callbacks,                \* history: the onSampleTriggeredCallback calls made
    failures,                 \* history: the playSample calls that rejected
    \* ---- AudioContextAnalyzer
    prevSpectrum,             \* Float32Array: the magnitudes of the previous analysis
    spectralFluxHistory,      \* number[]: the latest FLUX_HISTORY_SIZE flux values
    frequencyData,            \* Uint8Array: the byte spectrum read last
    awaitingTimer,            \* the input buffers of the analyses awaiting their timer
    analysisCalls,            \* number of analyzeRealTimeContext calls so far
    returned,                 \* number of analyzeRealTimeContext calls that have returned
    lastReturn,               \* what the latest call that returned was given and gave
    \* ---- the scorer of SmartSampleTrigger called by itself
    keyCall,                \* the latest calculateKeyCompatibility call and the one before
    scored,                   \* the latest shouldTriggerSample call: arguments and results
    pitchCall                 \* the latest getPitchClass call and the one before

sessionVars == <<audioBufferQueue, accumulatedBufferLength, lastAnalysisTime,
                 cycles, delivered, ingested, lastCall>>
triggerVars == <<samples, newSamples, lastTriggerTimes, passes, plays, callbacks, failures>>
analyzerVars == <<prevSpectrum, spectralFluxHistory, frequencyData, awaitingTimer,
                  analysisCalls, returned, lastReturn>>
\* the scorer called by itself, with its arguments and its results
scorerVars == <<keyCall, scored, pitchCall>>
vars == <<now, ticks, sessionVars, triggerVars, analyzerVars, scorerVars>>

----------------------------------------------------------------------------
(* Bounds of the model *)

\* Date.now() at construction, in ms: any value well past the largest interval
StartTime == 10000
\* clock advances explored
MaxTicks == 4
\* handleNewLyriaAudioBuffer calls explored
MaxBuffers == 3
\* evaluateAndTrigger calls explored
MaxPasses == 2
\* Clock advances explored while the scheduler runs
MaxTriggerTicks == 3
\* analyzeRealTimeContext calls explored
MaxAnalyses == 2
\* analyses of silence before the explored ones
MaxQuiet == 29
\* bins of the analyser node explored (frequencyBinCount, 1024 in the program)
NumBins == 2

(* Program constants *)
sampleRate == 48000
analysisIntervalMs == 500
\* maxBufferDurationSecs = 2.0
maxBufferDurationSecs == 2

Min(a, b) == IF a < b THEN a ELSE b
Max(a, b) == IF a > b THEN a ELSE b

RECURSIVE SumSeq(_)
SumSeq(s) == IF s = <<>> THEN 0 ELSE Head(s) + SumSeq(Tail(s))

----------------------------------------------------------------------------
(* Natural numbers of any size: little-endian sequences of limbs in
   0..LimbBase-1 without most significant zero limbs; <<>> is 0. *)
LimbBits == 12
LimbBase == 4096
Pow2(n) == <<1, 2, 4, 8, 16, 32, 64, 128, 256, 512, 1024, 2048, 4096>>[n + 1]

MaxOf(S) == CHOOSE v \in S : \A w \in S : w <= v
MinOf(S) == CHOOSE v \in S : \A w \in S : v <= w
Limb(a, i) == IF i >= 1 /\ i <= Len(a) THEN a[i] ELSE 0
Zeros(n) == [i \in 1..n |-> 0]

BNorm(a) == LET nz == {i \in 1..Len(a) : a[i] # 0}
            IN  IF nz = {} THEN <<>> ELSE SubSeq(a, 1, MaxOf(nz))
BFromInt(n) == BNorm(<<n % LimbBase, (n \div LimbBase) % LimbBase,
                       n \div (LimbBase * LimbBase)>>)

\* a + b: the carry into limb i comes from a lower limb j that overflows, through
\* limbs that are all LimbBase - 1
BAdd(a, b) ==
    LET n == (IF Len(a) > Len(b) THEN Len(a) ELSE Len(b)) + 1
        s == [i \in 1..n |-> Limb(a, i) + Limb(b, i)]
        c == [i \in 1..n |-> IF \E j \in 1..(i - 1) :
                                    /\ s[j] >= LimbBase
                                    /\ \A k \in (j + 1)..(i - 1) : s[k] = LimbBase - 1
                             THEN 1 ELSE 0]
    IN  BNorm([i \in 1..n |-> (s[i] + c[i]) % LimbBase])

\* a - b for a >= b
BSub(a, b) ==
    LET n == Len(a)
        w == [i \in 1..n |-> IF \E j \in 1..(i - 1) :
                                    /\ Limb(a, j) < Limb(b, j)
                                    /\ \A k \in (j + 1)..(i - 1) : Limb(a, k) = Limb(b, k)
                             THEN 1 ELSE 0]
    IN  BNorm([i \in 1..n |-> (a[i] - Limb(b, i) - w[i] + LimbBase) % LimbBase])

\* -1, 0, 1 as a < b, a = b, a > b
BCmp(a, b) ==
    IF Len(a) < Len(b) THEN -1
    ELSE IF Len(a) > Len(b) THEN 1
    ELSE LET d == {i \in 1..Len(a) : a[i] # b[i]}
         IN  IF d = {} THEN 0
             ELSE IF a[MaxOf(d)] < b[MaxOf(d)] THEN -1 ELSE 1

\* a * k for 0 <= k <= LimbBase
BMulSmall(a, k) ==
    BAdd([i \in 1..Len(a) |-> (a[i] * k) % LimbBase],
         <<0>> \o [i \in 1..Len(a) |-> (a[i] * k) \div LimbBase])

RECURSIVE SumTo(_, _)
SumTo(f, n) == IF n = 0 THEN 0 ELSE f[n] + SumTo(f, n - 1)

\* a * b, by columns: column k sums the products a[i] * b[k + 1 - i]
BMul(a, b) ==
    IF a = <<>> \/ b = <<>> THEN <<>>
    ELSE LET n == Len(a) + Len(b)
             col == [k \in 1..n |->
                        SumTo([i \in 1..Len(a) |-> a[i] * Limb(b, k + 1 - i)], Len(a))]
             lo == [k \in 1..n |-> col[k] % LimbBase]
             mi == <<0>> \o [k \in 1..n |-> (col[k] \div LimbBase) % LimbBase]
             hi == <<0, 0>> \o [k \in 1..n |-> col[k] \div (LimbBase * LimbBase)]
         IN  BAdd(BAdd(lo, mi), hi)

\* quotient and remainder of a by k, for 0 < k <= 2^18
RECURSIVE RemAt(_, _, _)
RemAt(a, k, i) == IF i > Len(a) THEN 0 ELSE (RemAt(a, k, i + 1) * LimbBase + a[i]) % k
BDivSmall(a, k) ==
    [q |-> BNorm([i \in 1..Len(a) |-> (RemAt(a, k, i + 1) * LimbBase + a[i]) \div k]),
     r |-> RemAt(a, k, 1)]

BShl(a, n) == IF a = <<>> THEN a
              ELSE Zeros(n \div LimbBits) \o BMulSmall(a, Pow2(n % LimbBits))
BShr(a, n) == IF Len(a) <= n \div LimbBits THEN <<>>
              ELSE BDivSmall(SubSeq(a, n \div LimbBits + 1, Len(a)), Pow2(n % LimbBits)).q

IntBits(n) == IF n = 0 THEN 0 ELSE MinOf({k \in 1..LimbBits : n < Pow2(k)})
BBits(a) == IF a = <<>> THEN 0 ELSE LimbBits * (Len(a) - 1) + IntBits(a[Len(a)])
BOdd(a) == a # <<>> /\ a[1] % 2 = 1
\* the number of trailing zero bits of a # 0
BTrailingZeros(a) ==
    LET i == MinOf({j \in 1..Len(a) : a[j] # 0})
    IN  LimbBits * (i - 1) + MaxOf({k \in 0..(LimbBits - 1) : a[i] % Pow2(k) = 0})

(* IEEE-754 binary64 numbers as [s, m, e], the value s * m * 2^e with s the
   sign (1 or -1) and m a natural number of exactly 53 bits, or 0 as
   [s |-> 1, m |-> <<>>, e |-> 0]. *)
MantBits == 53
DZero == [s |-> 1, m |-> <<>>, e |-> 0]

\* Op applied to the values of its arguments: an intermediate result of the
\* code (a const) is computed once and named by a parameter of Op
Call1(Op(_), a) == CHOOSE r \in {Op(x) : x \in {a}} : TRUE
Call2(Op(_, _), a, b) == CHOOSE r \in {Op(x, y) : x \in {a}, y \in {b}} : TRUE
Call3(Op(_, _, _), a, b, c) ==
    CHOOSE r \in {Op(x, y, z) : x \in {a}, y \in {b}, z \in {c}} : TRUE

\* round-to-nearest, ties-to-even, of s * m * 2^e: n is the number of bits of
\* m, q its leading MantBits bits, c compares the bits below them with one
\* half, q1 is q rounded
DRound(s, m, e) ==
    Call1(LAMBDA n :
        IF n = 0 THEN DZero
        ELSE IF n <= MantBits
        THEN [s |-> s, m |-> BShl(m, MantBits - n), e |-> e - (MantBits - n)]
        ELSE Call1(LAMBDA q :
                 Call1(LAMBDA c :
                     Call1(LAMBDA q1 :
                         IF BBits(q1) > MantBits
                         THEN [s |-> s, m |-> BShr(q1, 1), e |-> e + (n - MantBits) + 1]
                         ELSE [s |-> s, m |-> q1, e |-> e + (n - MantBits)],
                         IF c > 0 \/ (c = 0 /\ BOdd(q)) THEN BAdd(q, <<1>>) ELSE q),
                     BCmp(BSub(m, BShl(q, n - MantBits)), BShl(<<1>>, n - MantBits - 1))),
                 BShr(m, n - MantBits)),
        BBits(m))

DFromInt(n) == DRound(IF n < 0 THEN -1 ELSE 1, BFromInt(IF n < 0 THEN -n ELSE n), 0)
DNeg(a) == IF a.m = <<>> THEN a ELSE [a EXCEPT !.s = -a.s]
DAbs(a) == [a EXCEPT !.s = 1]
\* compare magnitudes: -1, 0, 1
DCmpMag(a, b) ==
    IF a.m = <<>> THEN (IF b.m = <<>> THEN 0 ELSE -1)
    ELSE IF b.m = <<>> THEN 1
    ELSE IF a.e < b.e THEN -1
    ELSE IF a.e > b.e THEN 1
    ELSE BCmp(a.m, b.m)
DLt(a, b) ==
    IF a.s = 1 /\ b.s = 1 THEN DCmpMag(a, b) < 0
    ELSE IF a.s = -1 /\ b.s = -1 THEN DCmpMag(a, b) > 0
    ELSE a.s = -1
DGt(a, b) == DLt(b, a)

\* a + b: ma and mb are the mantissas at the smaller exponent, c compares
\* them when the signs differ
DAdd(a, b) ==
    IF a.m = <<>> THEN b
    ELSE IF b.m = <<>> THEN a
    ELSE Call2(LAMBDA ma, mb :
             Call1(LAMBDA c :
                 DRound(IF c >= 0 THEN a.s ELSE b.s,
                        IF a.s = b.s THEN BAdd(ma, mb)
                        ELSE IF c >= 0 THEN BSub(ma, mb) ELSE BSub(mb, ma),
                        Min(a.e, b.e)),
                 IF a.s = b.s THEN 0 ELSE BCmp(ma, mb)),
             BShl(a.m, a.e - Min(a.e, b.e)), BShl(b.m, b.e - Min(a.e, b.e)))
DSub(a, b) == DAdd(a, DNeg(b))
DMul(a, b) ==
    IF a.m = <<>> \/ b.m = <<>> THEN DZero
    ELSE DRound(a.s * b.s, BMul(a.m, b.m), a.e + b.e)
\* a / b for a divisor whose odd part is below 2^18 (the small integers the
\* program divides by, and the powers of ten of its decimal literals): z is
\* the number of trailing zero bits of b.m, d the quotient and remainder of
\* a.m * 2^77 by the odd part; one more bit below the quotient tells whether
\* the division is exact
DDiv(a, b) ==
    IF a.m = <<>> THEN DZero
    ELSE Call1(LAMBDA z :
             Call1(LAMBDA d :
                 DRound(a.s * b.s,
                        BAdd(BShl(d.q, 1), IF d.r = 0 THEN <<>> ELSE <<1>>),
                        a.e - (24 + MantBits) - 1 - (b.e + z)),
                 BDivSmall(BShl(a.m, 24 + MantBits),
                           Limb(BShr(b.m, z), 1) + Limb(BShr(b.m, z), 2) * LimbBase)),
             BTrailingZeros(b.m))
\* the number a decimal literal p/q denotes
DLit(p, q) == DDiv(DFromInt(p), DFromInt(q))
DMax(a, b) == IF DLt(a, b) THEN b ELSE a
DMin(a, b) == IF DLt(b, a) THEN b ELSE a

\* The next digit of a long division in base LimbBase: the largest d with
\* b * d <= cur, for cur < b * LimbBase and a divisor b whose most significant
\* limb is at least LimbBase / 2. The estimate from the leading limbs is at
\* most 2 too large.
BDivDigit(cur, b) ==
    Call1(LAMBDA qhat :
        MaxOf({d \in Max(0, qhat - 2)..qhat : BCmp(BMulSmall(b, d), cur) <= 0}),
        IF Len(cur) < Len(b) THEN 0
        ELSE IF Len(cur) = Len(b) THEN cur[Len(b)] \div b[Len(b)]
        ELSE Min(LimbBase - 1,
                 (cur[Len(b) + 1] * LimbBase + cur[Len(b)]) \div b[Len(b)]))
\* long division of the limbs i, i - 1, ..., j of a by b: rem is the remainder
\* and q the quotient of the limbs above i. The upper half of the limbs comes
\* first, then the lower half from what the upper half leaves
RECURSIVE BDivLimbs(_, _, _, _, _, _)
BDivLimbs(a, b, i, j, rem, q) ==
    IF i < j THEN [q |-> q, r |-> rem]
    ELSE IF i = j
    THEN Call1(LAMBDA cur :
             Call1(LAMBDA d : [q |-> <<d>> \o q, r |-> BSub(cur, BMulSmall(b, d))],
                   BDivDigit(cur, b)),
             BNorm(<<a[i]>> \o rem))
    ELSE Call1(LAMBDA h : BDivLimbs(a, b, (i + j) \div 2, j, h.r, h.q),
               BDivLimbs(a, b, i, (i + j) \div 2 + 1, rem, q))
\* quotient of a by b # 0, and whether the division is exact: both are
\* shifted left until the most significant limb of b is at least LimbBase / 2
BDivMod(a, b) ==
    Call1(LAMBDA sh :
        Call1(LAMBDA d : [q |-> BNorm(d.q), exact |-> d.r = <<>>],
              Call2(LAMBDA a1, b1 : BDivLimbs(a1, b1, Len(a1), 1, <<>>, <<>>),
                    BShl(a, sh), BShl(b, sh))),
        LimbBits - IntBits(b[Len(b)]))
\* a / b for any nonzero divisor: 56 bits of quotient (both mantissas have 53
\* bits) and one more bit which tells whether the division is exact
DQuot(a, b) ==
    IF a.m = <<>> THEN DZero
    ELSE Call1(LAMBDA d :
             DRound(a.s * b.s,
                    BAdd(BShl(d.q, 1), IF d.exact THEN <<>> ELSE <<1>>),
                    a.e - b.e - (MantBits + 3) - 1),
             BDivMod(BShl(a.m, MantBits + 3), b.m))

\* the integer square root of n from an estimate x that is not below it:
\* x <- (x + n / x) / 2 until x no longer decreases
RECURSIVE BSqrtFrom(_, _)
BSqrtFrom(n, x) ==
    Call1(LAMBDA y : IF BCmp(y, x) >= 0 THEN x ELSE BSqrtFrom(n, y),
          BShr(BAdd(x, BDivMod(n, x).q), 1))
\* the integer square root of n, 2^108 <= n < 2^110: the first estimate is
\* the root of the leading 24 bits of n, plus one
BSqrt(n) ==
    Call1(LAMBDA t :
        BSqrtFrom(n, BShl(BFromInt(1 + CHOOSE r \in 2048..4095 :
                                           r * r <= t /\ t < (r + 1) * (r + 1)), 43)),
        Limb(BShr(n, 86), 1) + Limb(BShr(n, 86), 2) * LimbBase)
\* Math.sqrt of a >= 0: 55 bits of the root of the mantissa, brought to an
\* even exponent, and one more bit which tells whether the root is exact
DSqrt(a) ==
    IF a.m = <<>> THEN DZero
    ELSE Call2(LAMBDA n, root :
             DRound(1,
                    BAdd(BShl(root, 1), IF BMul(root, root) = n THEN <<>> ELSE <<1>>),
                    (a.e - (a.e % 2) - (MantBits + 3)) \div 2 - 1),
             BShl(a.m, MantBits + 3 + (a.e % 2)),
             BSqrt(BShl(a.m, MantBits + 3 + (a.e % 2))))

----------------------------------------------------------------------------
(* JavaScript values *)

\* an absent (undefined) number: a pitch class, an energy level, an interval
NoNumber == -1
\* the null a JSON document holds for a number that could not be determined
null == -2
\* ToNumber of an optional number that is not undefined: null is 0
ToNumber(x) == IF x = null THEN 0 ELSE x
\* an absent (undefined) floating-point number
DUndefined == [s |-> 0, m |-> <<>>, e |-> 0]
\* an absent string is "": every test the program makes on an optional string
\* (!s, if (s)) treats undefined and "" alike
NoString == ""

\* The binary64 values of the decimal literals of the program, as the
\* JavaScript parser produces them (the nearest double, ties to even)
\* 0 = 0x0000000000000000
D0 == [s |-> 1, m |-> <<>>, e |-> 0]
\* 1 = 0x3FF0000000000000
D1 == [s |-> 1, m |-> <<0, 0, 0, 0, 16>>, e |-> -52]
\* 9 = 0x4022000000000000
D9 == [s |-> 1, m |-> <<0, 0, 0, 0, 18>>, e |-> -49]
\* 0.1 = 0x3FB999999999999A
D01 == [s |-> 1, m |-> <<2458, 2457, 2457, 2457, 25>>, e |-> -56]
\* 0.2 = 0x3FC999999999999A
D02 == [s |-> 1, m |-> <<2458, 2457, 2457, 2457, 25>>, e |-> -55]
\* 0.3 = 0x3FD3333333333333
D03 == [s |-> 1, m |-> <<819, 819, 819, 819, 19>>, e |-> -54]
\* 0.4 = 0x3FD999999999999A
D04 == [s |-> 1, m |-> <<2458, 2457, 2457, 2457, 25>>, e |-> -54]
\* 0.5 = 0x3FE0000000000000
D05 == [s |-> 1, m |-> <<0, 0, 0, 0, 16>>, e |-> -53]
\* 0.6 = 0x3FE3333333333333
D06 == [s |-> 1, m |-> <<819, 819, 819, 819, 19>>, e |-> -53]
\* 0.7 = 0x3FE6666666666666
D07 == [s |-> 1, m |-> <<1638, 1638, 1638, 1638, 22>>, e |-> -53]
\* 0.8 = 0x3FE999999999999A
D08 == [s |-> 1, m |-> <<2458, 2457, 2457, 2457, 25>>, e |-> -53]
\* 0.9 = 0x3FECCCCCCCCCCCCD
D09 == [s |-> 1, m |-> <<3277, 3276, 3276, 3276, 28>>, e |-> -53]
\* 1.1 = 0x3FF199999999999A
D11 == [s |-> 1, m |-> <<2458, 2457, 2457, 2457, 17>>, e |-> -52]
\* 1.5 = 0x3FF8000000000000
D15 == [s |-> 1, m |-> <<0, 0, 0, 0, 24>>, e |-> -52]
\* 5, 128
D5 == [s |-> 1, m |-> <<0, 0, 0, 0, 20>>, e |-> -50]
D128 == [s |-> 1, m |-> <<0, 0, 0, 0, 16>>, e |-> -45]
\* 0.01 = 0x1.47ae147ae147bp-7, 1e-6 = 0x1.0c6f7a0b5ed8dp-20
D001 == [s |-> 1, m |-> <<1147, 2785, 327, 1966, 20>>, e |-> -59]
D1em6 == [s |-> 1, m |-> <<3469, 2910, 1952, 3183, 16>>, e |-> -72]
\* The analyser node's fftSize, and binWidth = sampleRate / fftSize = 23.4375
fftSize == 2048
binWidth == [s |-> 1, m |-> <<0, 0, 0, 1792, 23>>, e |-> -48]
\* Each of them is what the division of the model gives for the decimal
LiteralValues ==
    /\ D0 = DFromInt(0)
    /\ D1 = DFromInt(1)
    /\ D9 = DFromInt(9)
    /\ D01 = DLit(1, 10)
    /\ D02 = DLit(2, 10)
    /\ D03 = DLit(3, 10)
    /\ D04 = DLit(4, 10)
    /\ D05 = DLit(5, 10)
    /\ D06 = DLit(6, 10)
    /\ D07 = DLit(7, 10)
    /\ D08 = DLit(8, 10)
    /\ D09 = DLit(9, 10)
    /\ D11 = DLit(11, 10)
    /\ D15 = DLit(15, 10)
    /\ D5 = DFromInt(5)
    /\ D128 = DFromInt(128)
    /\ D001 = DLit(1, 100)
    /\ D1em6 = DLit(1, 1000000)
    /\ binWidth = DQuot(DFromInt(sampleRate), DFromInt(fftSize))

Lowers == "abcdefghijklmnopqrstuvwxyz"
Uppers == "ABCDEFGHIJKLMNOPQRSTUVWXYZ"
CharAt(s, i) == SubSeq(s, i, i)
MapChar(ch, from, to) ==
    IF \E i \in 1..Len(from) : CharAt(from, i) = ch
    THEN CharAt(to, CHOOSE i \in 1..Len(from) : CharAt(from, i) = ch)
    ELSE ch
RECURSIVE MapString(_, _, _)
MapString(s, from, to) ==
    IF Len(s) = 0 THEN s
    ELSE IF Len(s) = 1 THEN MapChar(s, from, to)
    ELSE MapString(SubSeq(s, 1, Len(s) \div 2), from, to)
         \o MapString(SubSeq(s, Len(s) \div 2 + 1, Len(s)), from, to)
toUpperCase(s) == MapString(s, Lowers, Uppers)
toLowerCase(s) == MapString(s, Uppers, Lowers)

\* String.prototype.indexOf, 1-based, 0 when pat does not occur
IndexOf(s, pat) ==
    LET at == {i \in 1..(Len(s) - Len(pat) + 1) : SubSeq(s, i, i + Len(pat) - 1) = pat}
    IN  IF at = {} THEN 0 ELSE MinOf(at)
includes(s, pat) == IndexOf(s, pat) # 0
endsWith(s, pat) == Len(s) >= Len(pat) /\ SubSeq(s, Len(s) - Len(pat) + 1, Len(s)) = pat
\* s.replace("pat", rep): the first occurrence only
replace(s, pat, rep) ==
    Call1(LAMBDA i :
        IF i = 0 THEN s
        ELSE SubSeq(s, 1, i - 1) \o rep \o SubSeq(s, i + Len(pat), Len(s)),
        IndexOf(s, pat))
\* s.replace(/pat/g, rep): every occurrence, left to right
RECURSIVE replaceAll(_, _, _)
replaceAll(s, pat, rep) ==
    Call1(LAMBDA i :
        IF i = 0 THEN s
        ELSE SubSeq(s, 1, i - 1) \o rep
             \o replaceAll(SubSeq(s, i + Len(pat), Len(s)), pat, rep),
        IndexOf(s, pat))
\* s.replace(...).replace(...) for the calls i..j of chain, in order; a call
\* is <<pat, rep, all>>, all telling whether pat is a regular expression
\* with /g. The first half of the calls, then the second half on its result
RECURSIVE replaceChain(_, _, _, _)
replaceChain(s, chain, i, j) ==
    IF i > j THEN s
    ELSE IF i = j
    THEN IF chain[i][3] THEN replaceAll(s, chain[i][1], chain[i][2])
         ELSE replace(s, chain[i][1], chain[i][2])
    ELSE Call1(LAMBDA t : replaceChain(t, chain, (i + j) \div 2 + 1, j),
               replaceChain(s, chain, i, (i + j) \div 2))

----------------------------------------------------------------------------
(* SmartSampleTrigger: the compatibility scorer *)

NUM_CHROMA_BINS == 12
PITCH_CLASS_NAMES == <<"C", "C#", "D", "D#", "E", "F", "F#", "G", "G#", "A", "A#", "B">>
\* PITCH_CLASS_NAMES.indexOf(name): 0-based, -1 when absent
PitchClassIndexOf(name) ==
    IF \E i \in 1..Len(PITCH_CLASS_NAMES) : PITCH_CLASS_NAMES[i] = name
    THEN (CHOOSE i \in 1..Len(PITCH_CLASS_NAMES) : PITCH_CLASS_NAMES[i] = name) - 1
    ELSE -1

\* The replace calls getPitchClass chains on the key name
KeyNameReplacements ==
    << <<"SHARP", "#", FALSE>>, <<"FLAT", "B", FALSE>>,
       <<"DB", "C#", TRUE>>, <<"EB", "D#", TRUE>>, <<"FB", "E", TRUE>>,
       <<"GB", "F#", TRUE>>, <<"AB", "G#", TRUE>>, <<"BB", "A#", TRUE>>,
       <<"CB", "B", TRUE>> >>

\* The same without the rewriting of flats
getPitchClassOfSharps(keyName) ==
    IF keyName = NoString THEN NoNumber
    ELSE IF PitchClassIndexOf(toUpperCase(keyName)) # -1
    THEN PitchClassIndexOf(toUpperCase(keyName))
    ELSE NoNumber

\* The same without the conversion to upper case
getPitchClassAsSpelled(keyName) ==
    IF keyName = NoString THEN NoNumber
    ELSE Call1(LAMBDA normalizedKeyName :
             Call1(LAMBDA pcIndex :
                 IF pcIndex # -1 THEN pcIndex
                 ELSE IF endsWith(normalizedKeyName, "B") /\ Len(normalizedKeyName) = 2
                         /\ PitchClassIndexOf(CharAt(normalizedKeyName, 1)) # -1
                 THEN (PitchClassIndexOf(CharAt(normalizedKeyName, 1)) - 1
                          + NUM_CHROMA_BINS) % NUM_CHROMA_BINS
                 ELSE NoNumber,
                 PitchClassIndexOf(normalizedKeyName)),
             replaceChain(IF Len(keyName) = 2 /\ endsWith(keyName, "S")
                          THEN CharAt(keyName, 1) \o "#"
                          ELSE IF Len(keyName) = 3 /\ endsWith(keyName, "S")
                                  /\ CharAt(keyName, 2) = "#"
                          THEN CharAt(keyName, 1) \o "##"
                          ELSE keyName,
                          KeyNameReplacements, 1, Len(KeyNameReplacements)))

getPitchClass(keyName) ==
    IF keyName = NoString THEN NoNumber
    ELSE Call1(LAMBDA upperKeyName :
             Call1(LAMBDA normalizedKeyName :
                 Call1(LAMBDA pcIndex :
                     IF pcIndex # -1 THEN pcIndex
                     ELSE IF endsWith(normalizedKeyName, "B") /\ Len(normalizedKeyName) = 2
                             /\ PitchClassIndexOf(CharAt(normalizedKeyName, 1)) # -1
                     THEN (PitchClassIndexOf(CharAt(normalizedKeyName, 1)) - 1
                              + NUM_CHROMA_BINS) % NUM_CHROMA_BINS
                     ELSE NoNumber,
                     PitchClassIndexOf(normalizedKeyName)),
                 replaceChain(IF Len(upperKeyName) = 2 /\ endsWith(upperKeyName, "S")
                              THEN CharAt(upperKeyName, 1) \o "#"
                              ELSE IF Len(upperKeyName) = 3 /\ endsWith(upperKeyName, "S")
                                      /\ CharAt(upperKeyName, 2) = "#"
                              THEN CharAt(upperKeyName, 1) \o "##"
                              ELSE upperKeyName,
                              KeyNameReplacements, 1, Len(KeyNameReplacements))),
             toUpperCase(keyName))

\* The same without the wrap at 6 semitones
getSemitoneDifferenceUnwrapped(pc1, pc2) == pc2 - pc1

getSemitoneDifference(pc1, pc2) ==
    LET diff == pc2 - pc1
        d1 == IF diff > 6 THEN diff - 12 ELSE diff
    IN  IF d1 < -6 THEN d1 + 12 ELSE d1

\* The same comparing the context's pitch class with the sample's own
calculateKeyCompatibilityUnshifted(contextKey, contextScale, sampleKey, sampleScale) ==
    IF contextKey = NoString \/ sampleKey = NoString
       \/ contextScale = NoString \/ sampleScale = NoString
    THEN [score |-> D05, pitchShiftSemitones |-> 0]
    ELSE Call3(LAMBDA contextPitchClass, samplePitchClass, sameScale :
             [score |->
                  IF contextPitchClass # NoNumber /\ samplePitchClass # NoNumber
                     /\ contextPitchClass = samplePitchClass
                  THEN (IF sameScale THEN D1 ELSE D08)
                  ELSE IF sameScale THEN D07
                  ELSE IF contextPitchClass # NoNumber /\ samplePitchClass # NoNumber
                  THEN D05
                  ELSE D03,
              pitchShiftSemitones |->
                  IF contextPitchClass # NoNumber /\ samplePitchClass # NoNumber
                  THEN getSemitoneDifference(samplePitchClass, contextPitchClass)
                  ELSE 0],
             getPitchClass(contextKey), getPitchClass(sampleKey),
             toLowerCase(contextScale) = toLowerCase(sampleScale))

calculateKeyCompatibility(contextKey, contextScale, sampleKey, sampleScale) ==
    IF contextKey = NoString \/ sampleKey = NoString
       \/ contextScale = NoString \/ sampleScale = NoString
    THEN [score |-> D05, pitchShiftSemitones |-> 0]
    ELSE Call2(LAMBDA contextPitchClass, samplePitchClass :
             Call1(LAMBDA pitchShiftSemitones :
                 Call2(LAMBDA shiftedSamplePitchClass, sameScale :
                     [score |->
                          IF contextPitchClass # NoNumber
                             /\ shiftedSamplePitchClass # NoNumber
                             /\ contextPitchClass = shiftedSamplePitchClass
                          THEN (IF sameScale THEN D1 ELSE D08)
                          ELSE IF sameScale THEN D07
                          ELSE IF contextPitchClass # NoNumber
                                  /\ shiftedSamplePitchClass # NoNumber
                          THEN D05
                          ELSE D03,
                      pitchShiftSemitones |-> pitchShiftSemitones],
                     IF samplePitchClass # NoNumber
                     THEN (samplePitchClass + pitchShiftSemitones + 12) % 12
                     ELSE NoNumber,
                     toLowerCase(contextScale) = toLowerCase(sampleScale)),
                 IF contextPitchClass # NoNumber /\ samplePitchClass # NoNumber
                 THEN getSemitoneDifference(samplePitchClass, contextPitchClass)
                 ELSE 0),
             getPitchClass(contextKey), getPitchClass(sampleKey))

\* The same with the energy level taken as tenths
calculateEnergyMatchOfTenths(contextEnergy, sampleEnergy) ==
    IF contextEnergy = DUndefined \/ sampleEnergy = NoNumber THEN D05
    ELSE DMax(D0, DSub(D1, DMul(DAbs(DSub(contextEnergy,
                                          DQuot(DFromInt(ToNumber(sampleEnergy)),
                                                DFromInt(10)))), D15)))

calculateEnergyMatch(contextEnergy, sampleEnergy) ==
    IF contextEnergy = DUndefined \/ sampleEnergy = NoNumber THEN D05
    ELSE Call1(LAMBDA normalizedSampleEnergy :
             Call1(LAMBDA diff :
                 DMax(D0, DSub(D1, DMul(diff, D15))),
                 DAbs(DSub(contextEnergy, normalizedSampleEnergy))),
             DDiv(DSub(DFromInt(ToNumber(sampleEnergy)), D1), D9))

calculateRhythmicFit(contextDensity, sampleGrooveDesc) ==
    IF contextDensity = DUndefined THEN D05
    ELSE Call1(LAMBDA score :
             DMax(D0, DMin(D1, score)),
             IF sampleGrooveDesc # NoString
             THEN Call1(LAMBDA desc :
                      IF includes(desc, "sparse") \/ includes(desc, "minimal")
                         \/ includes(desc, "ambient")
                      THEN DAdd(DMul(DSub(D1, contextDensity), D08), D01)
                      ELSE IF includes(desc, "dense") \/ includes(desc, "complex")
                              \/ includes(desc, "active") \/ includes(desc, "driving")
                      THEN DAdd(DMul(contextDensity, D08), D01)
                      ELSE IF includes(desc, "percussive") \/ includes(desc, "rhythmic")
                      THEN DAdd(D06, DMul(contextDensity, D02))
                      ELSE D05,
                      toLowerCase(sampleGrooveDesc))
             ELSE DSub(D05, DAbs(DSub(contextDensity, D05))))

\* The scoring half of shouldTriggerSample
totalScore(sample, context) ==
    Call3(LAMBDA keyCompat, energyCompat, rhythmCompat :
        [keyScore |-> keyCompat.score, energyScore |-> energyCompat,
         rhythmScore |-> rhythmCompat,
         total |-> DAdd(DAdd(DMul(keyCompat.score, D04), DMul(energyCompat, D03)),
                        DMul(rhythmCompat, D03)),
         pitchShift |-> keyCompat.pitchShiftSemitones],
        calculateKeyCompatibility(context.key, context.scale, sample.key, sample.scale),
        calculateEnergyMatch(context.energy, sample.energyLevel),
        calculateRhythmicFit(context.beatDensity, sample.grooveDescription))

calculatePlaybackConfig(sample, context, pitchShiftSemitones) ==
    Call1(LAMBDA baseVolume :
        Call1(LAMBDA volume :
            [volume |-> DMax(D01, DMin(D1, volume)), pitchShift |-> pitchShiftSemitones],
            IF context.energy = DUndefined THEN baseVolume
            ELSE IF DLt(context.energy, D03) THEN DMul(baseVolume, D07)
            ELSE IF DGt(context.energy, D07) THEN DMul(baseVolume, D11)
            ELSE baseVolume),
        IF (\E i \in 1..Len(sample.suggestedHipHopUses) :
                sample.suggestedHipHopUses[i] = "background")
           \/ (\E i \in 1..Len(sample.moodTags) : sample.moodTags[i] = "ambient")
        THEN D04 ELSE D07)

----------------------------------------------------------------------------
(* The sample catalogs and feature snapshots the model explores *)

Sample(id, type, key, scale, energyLevel, groove, minInterval, moods, uses) ==
    [id |-> id, sampleType |-> type, key |-> key, scale |-> scale,
     energyLevel |-> energyLevel, grooveDescription |-> groove,
     minimumIntervalMs |-> minInterval, moodTags |-> moods, suggestedHipHopUses |-> uses]

Library == {
    Sample("kick", "one-shot", "C", "Major", 9, "dense driving percussion", 0,
           <<"Dark">>, <<"Percussion layer">>),
    Sample("riser", "fx", "F#", "Minor", 2, "sparse ambient", 0,
           <<"ambient">>, <<"background">>),
    Sample("break", "loop", "C", "Major", 9, "dense driving percussion", 0,
           <<>>, <<>>),
    Sample("stab", "fx", "C", "Major", 9, "dense driving percussion", 3000,
           <<>>, <<>>),
    Sample("chop", "one-shot", "Db", "Major", 8, "active", NoNumber,
           <<>>, <<>>),
    Sample("hat", "one-shot", "C", "Major", NoNumber, "Swung 16ths", NoNumber,
           <<>>, <<>>),
    Sample("pad", "one-shot", "F#", "Minor", 4, NoString, NoNumber,
           <<>>, <<>>),
    Sample("vox", NoString, "C", "Major", 9, "dense driving percussion", 0,
           <<>>, <<>>) }
SampleIds == {s.id : s \in Library}
SampleOf(id) == CHOOSE s \in Library : s.id = id

Catalogs == { <<"stab", "kick", "break", "vox", "riser">>, <<"chop", "hat", "pad">>, <<>> }

Contexts == {
    [key |-> "C", scale |-> "Major", energy |-> D08, beatDensity |-> D09],
    [key |-> "A", scale |-> "Minor", energy |-> D02, beatDensity |-> D02],
    [key |-> NoString, scale |-> NoString, energy |-> DUndefined,
     beatDensity |-> DUndefined] }

\* The scores and the playback configuration of every snapshot and sample,
\* computed once
Scores == [c \in Contexts, s \in Library |-> totalScore(s, c)]
PitchShifts == -6..6
PlaybackConfigs ==
    [c \in Contexts, s \in Library, ps \in PitchShifts |-> calculatePlaybackConfig(s, c, ps)]

----------------------------------------------------------------------------
(* SmartSampleTrigger: the trigger scheduler *)

\* Clock advances between two callbacks of the scheduler, in ms
TriggerSteps == {1, 2999}

defaultMinimumIntervalMs == 3000
triggerThreshold == D07

minInterval(sample) ==
    IF sample.minimumIntervalMs = NoNumber THEN defaultMinimumIntervalMs
    ELSE sample.minimumIntervalMs

\* this.lastTriggerTimes.get(id) || 0
lastTriggerTime(times, id) == IF id \in DOMAIN times THEN times[id] ELSE 0

\* The same without the check of the sample type
shouldTriggerSampleAnyType(sample, context, t, times) ==
    IF t - lastTriggerTime(times, sample.id) < minInterval(sample)
    THEN [trigger |-> FALSE, pitchShift |-> 0]
    ELSE Call1(LAMBDA score :
             [trigger |-> DGt(score.total, triggerThreshold),
              pitchShift |-> score.pitchShift],
             Scores[context, sample])

\* The same without the threshold
shouldTriggerSampleAnyScore(sample, context, t, times) ==
    IF sample.sampleType # "one-shot" /\ sample.sampleType # "fx"
    THEN [trigger |-> FALSE, pitchShift |-> 0]
    ELSE IF t - lastTriggerTime(times, sample.id) < minInterval(sample)
    THEN [trigger |-> FALSE, pitchShift |-> 0]
    ELSE [trigger |-> TRUE, pitchShift |-> Scores[context, sample].pitchShift]

\* shouldTriggerSample at time t (Date.now()) with the map `times`
shouldTriggerSample(sample, context, t, times) ==
    IF sample.sampleType # "one-shot" /\ sample.sampleType # "fx"
    THEN [trigger |-> FALSE, pitchShift |-> 0]
    ELSE IF t - lastTriggerTime(times, sample.id) < minInterval(sample)
    THEN [trigger |-> FALSE, pitchShift |-> 0]
    ELSE Call1(LAMBDA score :
             [trigger |-> DGt(score.total, triggerThreshold),
              pitchShift |-> score.pitchShift],
             Scores[context, sample])

\* The first loop of evaluateAndTrigger: the {sample, pitchShift} entries of
\* the samples to fire, in catalog order
eligibleSamples(catalog, context, t, times) ==
    Call1(LAMBDA chosen :
        [i \in 1..Len(chosen) |-> [id |-> chosen[i].id, pitchShift |-> chosen[i].pitchShift]],
        SelectSeq([k \in 1..Len(catalog) |->
                      Call1(LAMBDA d : [id |-> catalog[k], trigger |-> d.trigger,
                                        pitchShift |-> d.pitchShift],
                            shouldTriggerSample(SampleOf(catalog[k]), context, t, times))],
                  LAMBDA e : e.trigger))

\* The call this.audioMixer.playSample(sample, playbackConfig) of pass p for
\* the k-th entry it selected
PlayCommand(p, pass, k) ==
    [id |-> pass.selected[k].id, pass |-> p, t |-> now,
     config |-> PlaybackConfigs[pass.context, SampleOf(pass.selected[k].id),
                                pass.selected[k].pitchShift]]

\* evaluateAndTrigger up to its first pending await: every sample is evaluated
\* (shouldTriggerSample awaits nothing), then playSample is called for the
\* first selected sample
evaluateAndTrigger(musicContext) ==
    /\ Len(passes) < MaxPasses
    /\ \E selected \in {eligibleSamples(samples, musicContext, now, lastTriggerTimes)} :
         \E pass \in {[context |-> musicContext, start |-> now, catalog |-> samples,
                       timesAtStart |-> lastTriggerTimes, selected |-> selected,
                       next |-> IF selected = <<>> THEN 0 ELSE 1,
                       state |-> IF selected = <<>> THEN "done" ELSE "awaiting"]} :
           /\ passes' = Append(passes, pass)
           /\ plays' = IF selected = <<>> THEN plays
                       ELSE plays \cup {PlayCommand(Len(passes) + 1, pass, 1)}
    /\ UNCHANGED <<now, ticks, samples, newSamples, lastTriggerTimes, callbacks, failures,
                   sessionVars, analyzerVars, scorerVars>>

Awaiting == {p \in 1..Len(passes) : passes[p].state = "awaiting"}

\* The playSample call pass p is awaiting
pendingPlay(p) ==
    CHOOSE c \in plays : c.pass = p /\ c.id = passes[p].selected[passes[p].next].id

\* The promise of playSample resolves: the firing time is recorded, the
\* observer is called with the playbackConfig of the call, and the loop goes
\* on to the next selected sample
playSampleResolves(p) ==
    /\ p \in Awaiting
    /\ LET pass == passes[p]
           id == pass.selected[pass.next].id
           last == pass.next = Len(pass.selected)
           after == [pass EXCEPT !.next = IF last THEN 0 ELSE pass.next + 1,
                                 !.state = IF last THEN "done" ELSE "awaiting"]
       IN  /\ lastTriggerTimes' =
                  [i \in DOMAIN lastTriggerTimes \cup {id} |->
                      IF i = id THEN now ELSE lastTriggerTimes[i]]
           /\ callbacks' = callbacks \cup
                  {[id |-> id, pass |-> p, t |-> now, context |-> pass.context,
                    config |-> pendingPlay(p).config]}
           /\ passes' = [passes EXCEPT ![p] = after]
           /\ plays' = IF last THEN plays
                       ELSE plays \cup {PlayCommand(p, after, after.next)}
    /\ UNCHANGED <<now, ticks, samples, newSamples, failures, sessionVars, analyzerVars, scorerVars>>

\* The promise of playSample rejects: the exception leaves the loop and
\* evaluateAndTrigger, whose promise rejects
playSampleRejects(p) ==
    /\ p \in Awaiting
    /\ failures' = failures \cup
           {[id |-> passes[p].selected[passes[p].next].id, pass |-> p, t |-> now]}
    /\ passes' = [passes EXCEPT ![p].state = "error"]
    /\ UNCHANGED <<now, ticks, samples, newSamples, lastTriggerTimes, plays, callbacks,
                   sessionVars, analyzerVars, scorerVars>>

\* The same, forgetting the firing times of the samples taken out
updateSamplesForgets(S) ==
    /\ samples' = S
    /\ newSamples' = S
    /\ lastTriggerTimes' =
           [id \in DOMAIN lastTriggerTimes \cap {S[k] : k \in 1..Len(S)} |->
               lastTriggerTimes[id]]
    /\ UNCHANGED <<now, ticks, passes, plays, callbacks, failures,
                   sessionVars, analyzerVars, scorerVars>>

\* The same, keeping the entries of the catalog before
updateSamplesAppends(S) ==
    /\ samples' = samples \o S
    /\ newSamples' = S
    /\ UNCHANGED <<now, ticks, lastTriggerTimes, passes, plays, callbacks, failures,
                   sessionVars, analyzerVars, scorerVars>>

\* updateSamples(newSamples): this.samples = [...newSamples]
updateSamples(S) ==
    /\ samples' = S
    /\ newSamples' = S
    /\ UNCHANGED <<now, ticks, lastTriggerTimes, passes, plays, callbacks, failures,
                   sessionVars, analyzerVars, scorerVars>>

TriggerTick(d) ==
    /\ ticks < MaxTriggerTicks
    /\ now' = now + d
    /\ ticks' = ticks + 1
    /\ UNCHANGED <<triggerVars, sessionVars, analyzerVars, scorerVars>>

TriggerStep ==
    \/ \E c \in Contexts : evaluateAndTrigger(c)
    \/ \E p \in 1..MaxPasses : playSampleResolves(p)
    \/ \E p \in 1..MaxPasses : playSampleRejects(p)
    \/ \E cat \in Catalogs : updateSamples(cat)
    \/ \E d \in TriggerSteps : TriggerTick(d)


----------------------------------------------------------------------------
(* ContextAwareLyriaSession *)

\* Lengths, in frames, of the buffers the generation source delivers:
\* 0 (invalid), 0.1 s, 1 s, 1.9 s, 2.1 s
BufferLengths == {0, 4800, 48000, 91200, 100800}
\* Clock advances between two callbacks of the session, in ms
SessionSteps == {1, 500, 1000}

\* The eviction loop of handleNewLyriaAudioBuffer: while the buffered duration
\* accumulated / sampleRate exceeds maxBufferDurationSecs and the queue is not
\* empty, shift the oldest buffer and subtract its length.
\* The same, never shifting the buffer that has just been appended
RECURSIVE EvictKeepsNewest(_, _)
EvictKeepsNewest(q, acc) ==
    IF acc > maxBufferDurationSecs * sampleRate /\ Len(q) > 1
    THEN EvictKeepsNewest(Tail(q), acc - Head(q))
    ELSE [queue |-> q, acc |-> acc]

\* The same with `if` in the place of `while`
EvictOnce(q, acc) ==
    IF acc > maxBufferDurationSecs * sampleRate /\ Len(q) > 0
    THEN [queue |-> Tail(q), acc |-> acc - Head(q)]
    ELSE [queue |-> q, acc |-> acc]

RECURSIVE Evict(_, _)
Evict(q, acc) ==
    IF acc > maxBufferDurationSecs * sampleRate /\ Len(q) > 0
    THEN Evict(Tail(q), acc - Head(q))
    ELSE [queue |-> q, acc |-> acc]

\* combineAudioChunks: the length of the combined buffer, 0 standing for null
combineAudioChunks(buffers) ==
    LET validBuffers == SelectSeq(buffers, LAMBDA b : b > 0)
    IN  IF Len(buffers) = 0 \/ Len(validBuffers) = 0 THEN 0 ELSE SumSeq(validBuffers)

\* The delay of the timer analyzeRealTimeContext awaits: duration * 1000 + 50
AnalysisDelay(len) == (len * 1000) \div sampleRate + 50

\* performAnalysis up to its first await: the cycles that reach the analyzer.
\* currentQueueSnapshot is a copy of the queue, which the method never writes
performAnalysis(cs, queue, t) ==
    IF Len(queue) = 0 THEN cs
    ELSE LET currentQueueSnapshot == queue
             bufferToAnalyze == combineAudioChunks(currentQueueSnapshot)
         IN  IF bufferToAnalyze = 0 THEN cs
             ELSE Append(cs, [start |-> t, len |-> bufferToAnalyze,
                              snapshot |-> currentQueueSnapshot,
                              due |-> t + AnalysisDelay(bufferToAnalyze),
                              state |-> "analysing"])

\* The same when performAnalysis is not an async function: the exception
\* leaves the caller
performAnalysisCallSync(cs, queue, t, combineThrows) ==
    [cycles |-> IF combineThrows /\ Len(queue) > 0
                THEN Append(cs, [start |-> t, len |-> 0, snapshot |-> queue,
                                 due |-> t, state |-> "rejected"])
                ELSE performAnalysis(cs, queue, t),
     threw |-> combineThrows /\ Len(queue) > 0]

\* The call this.performAnalysis() of handleNewLyriaAudioBuffer, which does
\* not await it.  createBuffer or copyToChannel of combineAudioChunks may
\* throw (buffers of different shapes): performAnalysis is an async function,
\* so the exception rejects its promise and nothing is thrown to the caller
performAnalysisCall(cs, queue, t, combineThrows) ==
    [cycles |-> IF combineThrows /\ Len(queue) > 0
                THEN Append(cs, [start |-> t, len |-> 0, snapshot |-> queue,
                                 due |-> t, state |-> "rejected"])
                ELSE performAnalysis(cs, queue, t),
     threw |-> FALSE]

\* The same without the interval
analysisDueAlways(t, last, queue) == Len(queue) > 0

\* The condition under which handleNewLyriaAudioBuffer calls performAnalysis
analysisDue(t, last, queue) == t - last > analysisIntervalMs /\ Len(queue) > 0

handleNewLyriaAudioBuffer(len, combineThrows) ==
    /\ ingested < MaxBuffers
    /\ ingested' = ingested + 1
    /\ UNCHANGED <<now, ticks, delivered, triggerVars, analyzerVars, scorerVars>>
    /\ IF len = 0
       THEN /\ UNCHANGED <<audioBufferQueue, accumulatedBufferLength,
                           lastAnalysisTime, cycles>>
            /\ lastCall' = [len |-> len, evicted |-> 0, started |-> FALSE, threw |-> FALSE]
       ELSE LET e == Evict(Append(audioBufferQueue, len), accumulatedBufferLength + len)
                due == analysisDue(now, lastAnalysisTime, e.queue)
                call == performAnalysisCall(cycles, e.queue, now, combineThrows)
            IN  /\ audioBufferQueue' = e.queue
                /\ accumulatedBufferLength' = e.acc
                /\ cycles' = IF due THEN call.cycles ELSE cycles
                /\ lastAnalysisTime' = IF due /\ ~call.threw THEN now ELSE lastAnalysisTime
                /\ lastCall' = [len |-> len,
                                 evicted |-> Len(audioBufferQueue) + 1 - Len(e.queue),
                                 started |-> due, threw |-> due /\ call.threw]

Analysing == {i \in 1..Len(cycles) : cycles[i].state = "analysing"}

\* The same, emptying the queue the cycle has analysed
AnalysisDoneClearsQueue(i, ok) ==
    /\ i \in Analysing
    /\ cycles[i].due <= now
    /\ \A j \in Analysing : (cycles[j].due = cycles[i].due) => j >= i
    /\ cycles' = [cycles EXCEPT ![i].state = IF ok THEN "delivered" ELSE "failed"]
    /\ delivered' = IF ok THEN Append(delivered, i) ELSE delivered
    /\ audioBufferQueue' = <<>>
    /\ accumulatedBufferLength' = 0
    /\ UNCHANGED <<now, ticks, lastAnalysisTime, ingested, lastCall, triggerVars, analyzerVars, scorerVars>>

\* The timer of analyzeRealTimeContext fires, the analyzer reads the analyser
\* node and performAnalysis hands the snapshot to onContextUpdateCallback; or
\* the analysis throws and performAnalysis logs the error.
AnalysisDone(i, ok) ==
    /\ i \in Analysing
    /\ cycles[i].due <= now
    /\ \A j \in Analysing : (cycles[j].due = cycles[i].due) => j >= i
    /\ cycles' = [cycles EXCEPT ![i].state = IF ok THEN "delivered" ELSE "failed"]
    /\ delivered' = IF ok THEN Append(delivered, i) ELSE delivered
    /\ UNCHANGED <<now, ticks, audioBufferQueue, accumulatedBufferLength,
                   lastAnalysisTime, ingested, lastCall, triggerVars, analyzerVars, scorerVars>>

\* Time passes, but not beyond the next pending timer.
SessionTick(d) ==
    /\ ticks < MaxTicks
    /\ \A j \in Analysing : cycles[j].due > now
    /\ LET dues == {cycles[j].due : j \in Analysing}
           t == now + d
       IN  now' = IF \E x \in dues : x < t
                  THEN CHOOSE x \in dues : \A y \in dues : x <= y
                  ELSE t
    /\ ticks' = ticks + 1
    /\ UNCHANGED <<sessionVars, triggerVars, analyzerVars, scorerVars>>

----------------------------------------------------------------------------
(* AudioContextAnalyzer *)

FLUX_HISTORY_SIZE == 30
\* The range of AnalyserNode.getByteFrequencyData; the constructor leaves the
\* node's minDecibels and maxDecibels as they are created
minDecibels == -100
maxDecibels == -30

\* The level of a bin without signal: getFloatFrequencyData gives -Infinity
Silence == -1000
\* The levels, in dB, a bin of the analyser node is read at
DecibelLevels == {Silence, -100, -60, -20}
\* What the analyser node holds when it is read: a level for every bin
Frames == [1..NumBins -> DecibelLevels]

\* Math.pow(10, dB / 20) as the Float32Array currentSpectrum holds it
Float32Pow10(dB) ==
    IF dB = 0 THEN D1
    ELSE IF dB = -60 THEN [s |-> 1, m |-> <<0, 0, 3552, 1572, 16>>, e |-> -62]
    ELSE IF dB = -20 THEN [s |-> 1, m |-> <<0, 0, 2464, 2457, 25>>, e |-> -56]
    ELSE [s |-> 1, m |-> <<0, 0, 1408, 3979, 20>>, e |-> -69]

\* AnalyserNode.getByteFrequencyData: the levels scaled from
\* minDecibels..maxDecibels to 0..255 and clipped
getByteFrequencyData(frame) ==
    [i \in 1..Len(frame) |->
        Max(0, Min(255, (255 * (frame[i] - minDecibels)) \div (maxDecibels - minDecibels)))]

\* getFrequencySpectrum: the frequencies of the bins above 128, loudest first
\* (the sort is stable), at most five; bin i of the program is element i + 1
getFrequencySpectrum(data) ==
    Call1(LAMBDA peaks :
        [r \in 1..Min(5, Cardinality(peaks)) |->
            DMul(DFromInt((CHOOSE i \in peaks :
                              Cardinality({j \in peaks : data[j] > data[i]
                                                         \/ (data[j] = data[i] /\ j < i)})
                                  = r - 1) - 1),
                 binWidth)],
        {i \in 1..Len(data) : data[i] > 128})

calculateEnergy(data) ==
    DMin(DQuot(DQuot(DFromInt(SumSeq(data)), DFromInt(Len(data))), D128), D1)

\* The same without the rectification
spectralFluxAddAny(flux, diff) == DAdd(flux, diff)

\* The loop body of the spectral flux: only a rise of a bin adds to the flux
spectralFluxAdd(flux, diff) == IF DGt(diff, D0) THEN DAdd(flux, diff) ELSE flux

\* The flux of the bins i.. of currentSpectrum against prevSpectrum, added to flux
RECURSIVE spectralFluxFrom(_, _, _, _)
spectralFluxFrom(currentSpectrum, previous, i, flux) ==
    IF i > Len(currentSpectrum) THEN flux
    ELSE Call1(LAMBDA f : spectralFluxFrom(currentSpectrum, previous, i + 1, f),
               spectralFluxAdd(flux, DSub(currentSpectrum[i], previous[i])))

\* history.reduce((s, v) => s + v, 0) over the elements i..j, in order: the
\* first half of them, then the second half from what the first leaves
RECURSIVE sumFluxFrom(_, _, _, _)
sumFluxFrom(history, i, j, sum) ==
    IF i > j THEN sum
    ELSE IF i = j THEN DAdd(sum, history[i])
    ELSE Call1(LAMBDA t : sumFluxFrom(history, (i + j) \div 2 + 1, j, t),
               sumFluxFrom(history, i, (i + j) \div 2, sum))

\* variance += Math.pow(flux - meanFlux, 2) over the elements i..j, in order
\* (the square of a double, rounded once)
RECURSIVE sumSquaresFrom(_, _, _, _, _)
sumSquaresFrom(history, meanFlux, i, j, variance) ==
    IF i > j THEN variance
    ELSE IF i = j
    THEN Call1(LAMBDA square : DAdd(variance, square),
               Call1(LAMBDA diff : DMul(diff, diff), DSub(history[i], meanFlux)))
    ELSE Call1(LAMBDA t : sumSquaresFrom(history, meanFlux, (i + j) \div 2 + 1, j, t),
               sumSquaresFrom(history, meanFlux, i, (i + j) \div 2, variance))

\* The same without Math.min and Math.max
beatDensityUnclamped(spectralFlux, meanFlux) ==
    Call1(LAMBDA beatDensityDenominator :
        IF beatDensityDenominator = D0 THEN D0
        ELSE DQuot(DSub(DQuot(spectralFlux, beatDensityDenominator), D1), D5),
        DAdd(meanFlux, D1em6))

\* rawDensity and beatDensity of detectOnsetsAndDensity. No operand is NaN
\* or infinite here, so isNaN(beatDensity) is false
beatDensityOf(spectralFlux, meanFlux) ==
    Call1(LAMBDA beatDensityDenominator :
        DMin(D1, DMax(D0,
            IF beatDensityDenominator = D0 THEN D0
            ELSE DQuot(DSub(DQuot(spectralFlux, beatDensityDenominator), D1), D5))),
        DAdd(meanFlux, D1em6))

\* onsetDetected of detectOnsetsAndDensity
onsetDetectedOf(spectralFlux, history, meanFlux) ==
    Call1(LAMBDA stdDevFlux :
        DGt(spectralFlux, DAdd(meanFlux, DMul(stdDevFlux, D15)))
            /\ DGt(spectralFlux, D001),
        DSqrt(DQuot(sumSquaresFrom(history, meanFlux, 1, Len(history), D0),
                    DFromInt(Len(history)))))

\* detectOnsetsAndDensity for the levels read from the analyser node: what it
\* returns, and what it leaves in prevSpectrum and spectralFluxHistory
detectOnsetsAndDensity(frame, previous, oldHistory) ==
    Call1(LAMBDA currentSpectrum :
        Call1(LAMBDA spectralFlux :
            Call1(LAMBDA history :
                Call1(LAMBDA meanFlux :
                    [onsets |-> <<onsetDetectedOf(spectralFlux, history, meanFlux)>>,
                     beatDensity |-> beatDensityOf(spectralFlux, meanFlux),
                     spectralFlux |-> spectralFlux,
                     prevSpectrum |-> currentSpectrum,
                     spectralFluxHistory |-> history],
                    DQuot(sumFluxFrom(history, 1, Len(history), D0), DFromInt(Len(history)))),
                IF Len(oldHistory) + 1 > FLUX_HISTORY_SIZE
                THEN Tail(Append(oldHistory, spectralFlux))
                ELSE Append(oldHistory, spectralFlux)),
            spectralFluxFrom(currentSpectrum, previous, 1, D0)),
        [i \in 1..Len(frame) |-> IF frame[i] < -100 THEN D0 ELSE Float32Pow10(frame[i])])

\* KEY_TEMPLATES in the order of for...in: the scales and, in each, the keys
\* as they are written
KEY_TEMPLATES == <<
    [scale |-> "Major", key |-> "C",  template |-> <<1, 0, 1, 0, 1, 1, 0, 1, 0, 1, 0, 1>>],
    [scale |-> "Major", key |-> "G",  template |-> <<1, 0, 1, 0, 1, 0, 1, 1, 0, 1, 0, 1>>],
    [scale |-> "Major", key |-> "D",  template |-> <<1, 0, 1, 0, 1, 0, 1, 0, 1, 1, 0, 1>>],
    [scale |-> "Major", key |-> "A",  template |-> <<1, 0, 1, 1, 0, 1, 0, 1, 0, 1, 0, 1>>],
    [scale |-> "Major", key |-> "E",  template |-> <<1, 0, 1, 0, 1, 1, 0, 1, 0, 1, 1, 0>>],
    [scale |-> "Major", key |-> "B",  template |-> <<0, 1, 0, 1, 1, 0, 1, 0, 1, 0, 1, 1>>],
    [scale |-> "Major", key |-> "Gb", template |-> <<0, 1, 0, 1, 1, 0, 1, 0, 1, 1, 0, 1>>],
    [scale |-> "Major", key |-> "Db", template |-> <<1, 0, 1, 1, 0, 1, 0, 1, 0, 1, 1, 0>>],
    [scale |-> "Major", key |-> "Ab", template |-> <<1, 1, 0, 1, 0, 1, 1, 0, 1, 0, 1, 0>>],
    [scale |-> "Major", key |-> "Eb", template |-> <<0, 1, 1, 0, 1, 1, 0, 1, 0, 1, 0, 1>>],
    [scale |-> "Major", key |-> "Bb", template |-> <<1, 0, 1, 0, 1, 1, 0, 1, 1, 0, 1, 0>>],
    [scale |-> "Major", key |-> "F",  template |-> <<1, 0, 1, 0, 1, 1, 1, 0, 1, 0, 1, 0>>],
    [scale |-> "Minor", key |-> "A",  template |-> <<1, 0, 1, 1, 0, 1, 0, 1, 1, 0, 0, 1>>],
    [scale |-> "Minor", key |-> "E",  template |-> <<1, 0, 1, 0, 1, 1, 0, 1, 0, 1, 0, 1>>],
    [scale |-> "Minor", key |-> "B",  template |-> <<1, 0, 1, 0, 1, 0, 1, 1, 0, 1, 0, 1>>],
    [scale |-> "Minor", key |-> "F#", template |-> <<1, 1, 0, 1, 0, 1, 0, 1, 1, 0, 1, 0>>],
    [scale |-> "Minor", key |-> "C#", template |-> <<0, 1, 1, 0, 1, 0, 1, 0, 1, 1, 0, 1>>],
    [scale |-> "Minor", key |-> "G#", template |-> <<1, 0, 1, 1, 0, 1, 0, 1, 0, 1, 1, 0>>],
    [scale |-> "Minor", key |-> "D#", template |-> <<0, 1, 0, 1, 1, 0, 1, 1, 0, 1, 0, 1>>],
    [scale |-> "Minor", key |-> "A#", template |-> <<1, 1, 0, 1, 0, 1, 1, 0, 1, 0, 1, 0>>],
    [scale |-> "Minor", key |-> "D",  template |-> <<1, 0, 1, 1, 0, 1, 0, 1, 0, 1, 0, 1>>],
    [scale |-> "Minor", key |-> "G",  template |-> <<1, 0, 1, 0, 1, 1, 0, 1, 1, 0, 0, 1>>],
    [scale |-> "Minor", key |-> "C",  template |-> <<1, 1, 0, 1, 1, 0, 1, 0, 1, 0, 0, 1>>],
    [scale |-> "Minor", key |-> "F",  template |-> <<1, 0, 1, 1, 0, 1, 1, 0, 1, 0, 1, 0>>] >>

\* Math.round(69 + 12 * Math.log2(i * binWidth / 440)) % NUM_CHROMA_BINS for
\* the bins i = 1, 2, ... of the program (bin 0, of frequency 0, is skipped)
binPitchClass == <<6, 6, 1, 6, 10, 1, 4, 6>>

\* chroma[pitchClass] += frequencyData[i]
chromaOf(data) ==
    [pc \in 0..(NUM_CHROMA_BINS - 1) |->
        SumSeq([k \in 1..(Len(data) - 1) |->
                   IF binPitchClass[k] = pc THEN data[k + 1] ELSE 0])]

\* score += normalizedChroma[i] * template[i] over the pitch classes i..j, in
\* order
RECURSIVE templateScoreFrom(_, _, _, _, _)
templateScoreFrom(normalizedChroma, template, i, j, score) ==
    IF i > j THEN score
    ELSE IF i = j
    THEN DAdd(score, DMul(normalizedChroma[i], DFromInt(template[i + 1])))
    ELSE Call1(LAMBDA t :
                 templateScoreFrom(normalizedChroma, template, (i + j) \div 2 + 1, j, t),
               templateScoreFrom(normalizedChroma, template, i, (i + j) \div 2, score))

\* The score of every template of KEY_TEMPLATES, in its order
templateScores(normalizedChroma) ==
    [k \in 1..Len(KEY_TEMPLATES) |->
        templateScoreFrom(normalizedChroma, KEY_TEMPLATES[k].template,
                          0, NUM_CHROMA_BINS - 1, D0)] @@ <<>>

\* The loop over KEY_TEMPLATES for the templates k..n, in order, scores[k]
\* being the score of template k: bestMatch changes only for a strictly
\* greater score
RECURSIVE bestMatchFrom(_, _, _, _)
bestMatchFrom(scores, k, n, bestMatch) ==
    IF k > n THEN bestMatch
    ELSE IF k = n
    THEN IF DGt(scores[k], bestMatch.score)
         THEN [key |-> KEY_TEMPLATES[k].key,
               scale |-> KEY_TEMPLATES[k].scale, score |-> scores[k]]
         ELSE bestMatch
    ELSE Call1(LAMBDA b : bestMatchFrom(scores, (k + n) \div 2 + 1, n, b),
               bestMatchFrom(scores, k, (k + n) \div 2, bestMatch))

estimateKeyFromChroma(data) ==
    Call1(LAMBDA chroma :
        Call1(LAMBDA sum :
            IF sum = 0 THEN [key |-> NoString, scale |-> NoString]
            ELSE Call1(LAMBDA normalizedChroma :
                     Call1(LAMBDA bestMatch :
                               [key |-> bestMatch.key, scale |-> bestMatch.scale],
                           Call1(LAMBDA scores :
                                     bestMatchFrom(scores, 1, Len(KEY_TEMPLATES),
                                                   [key |-> NoString, scale |-> NoString,
                                                    score |-> DNeg(D1)]),
                                 templateScores(normalizedChroma))),
                     [pc \in 0..(NUM_CHROMA_BINS - 1) |->
                         DQuot(DFromInt(chroma[pc]), DFromInt(sum))] @@ <<>>),
            SumSeq([k \in 1..NUM_CHROMA_BINS |-> chroma[k - 1]])),
        chromaOf(data))

\* The input buffers analyzeRealTimeContext is called with: null, undefined,
\* a buffer of length 0 and a buffer of 0.1 s
InputBuffers == {[kind |-> "null", length |-> 0], [kind |-> "undefined", length |-> 0],
                 [kind |-> "AudioBuffer", length |-> 0],
                 [kind |-> "AudioBuffer", length |-> 4800]}

defaultContext ==
    [timestamp |-> now, dominantFrequencies |-> <<>>, energy |-> D0,
     key |-> NoString, scale |-> NoString, onsets |-> <<FALSE>>, beatDensity |-> D0]

\* The same without the two guards: reading the duration of null throws
inputUnguarded(inputBuffer) ==
    IF inputBuffer.kind \in {"null", "undefined"} THEN "throw" ELSE "analyse"

\* The guards of analyzeRealTimeContext: what the call does with its input
inputGuard(inputBuffer) ==
    IF inputBuffer.kind \in {"null", "undefined"} THEN "default"
    ELSE IF inputBuffer.length = 0 THEN "default"
    ELSE "analyse"

\* analyzeRealTimeContext up to its await, or to its return
analyzeRealTimeContext(inputBuffer) ==
    /\ analysisCalls < MaxAnalyses
    /\ analysisCalls' = analysisCalls + 1
    /\ IF inputGuard(inputBuffer) = "analyse"
       THEN /\ awaitingTimer' = Append(awaitingTimer, inputBuffer)
            /\ UNCHANGED <<returned, lastReturn>>
       ELSE /\ returned' = returned + 1
            /\ lastReturn' = [input |-> inputBuffer,
                              threw |-> inputGuard(inputBuffer) = "throw",
                              context |-> defaultContext,
                              frame |-> <<>>, previous |-> <<>>, spectralFlux |-> D0]
            /\ UNCHANGED awaitingTimer
    /\ UNCHANGED <<prevSpectrum, spectralFluxHistory, frequencyData>>
    /\ UNCHANGED <<now, ticks, sessionVars, triggerVars, scorerVars>>

\* The timer of the k-th waiting analysis fires: the analyser node is read,
\* at the levels of frame, and the snapshot is returned
timerFires(k, frame) ==
    /\ k \in 1..Len(awaitingTimer)
    /\ \E onsetInfo \in {detectOnsetsAndDensity(frame, prevSpectrum, spectralFluxHistory)} :
       \E keyInfo \in {estimateKeyFromChroma(getByteFrequencyData(frame))} :
          /\ prevSpectrum' = onsetInfo.prevSpectrum
          /\ spectralFluxHistory' = onsetInfo.spectralFluxHistory
          /\ frequencyData' = getByteFrequencyData(frame)
          /\ lastReturn' =
                 [input |-> awaitingTimer[k], threw |-> FALSE,
                  context |->
                      [timestamp |-> now,
                       dominantFrequencies |-> getFrequencySpectrum(getByteFrequencyData(frame)),
                       energy |-> calculateEnergy(getByteFrequencyData(frame)),
                       key |-> keyInfo.key, scale |-> keyInfo.scale,
                       onsets |-> onsetInfo.onsets,
                       beatDensity |-> onsetInfo.beatDensity],
                  frame |-> frame, previous |-> prevSpectrum,
                  spectralFlux |-> onsetInfo.spectralFlux]
    /\ awaitingTimer' = SubSeq(awaitingTimer, 1, k - 1)
                            \o SubSeq(awaitingTimer, k + 1, Len(awaitingTimer))
    /\ returned' = returned + 1
    /\ UNCHANGED <<analysisCalls, now, ticks, sessionVars, triggerVars, scorerVars>>

----------------------------------------------------------------------------
(* The scorer of SmartSampleTrigger called by itself *)

\* The key names of PITCH_CLASS_NAMES and the flat spellings getPitchClass
\* rewrites, and scale names
KeyNames == {"C", "C#", "D", "D#", "E", "F", "F#", "G", "G#", "A", "A#", "B",
             "Db", "Eb", "Fb", "Gb", "Ab", "Bb", "Cb"}
ScaleNames == {"Major", "Minor", "minor"}

\* calculateKeyCompatibility of every key and scale, computed once
KeyCompatibilities ==
    [contextKey \in KeyNames, contextScale \in ScaleNames,
     sampleKey \in KeyNames, sampleScale \in ScaleNames |->
        calculateKeyCompatibility(contextKey, contextScale, sampleKey, sampleScale)]

NoKeyCall == [contextKey |-> NoString, sampleKey |-> NoString, score |-> DUndefined]

\* calculateKeyCompatibility is called
calculateKeyCompatibilityCall(contextKey, contextScale, sampleKey, sampleScale) ==
    /\ keyCall.calls = 0
    /\ keyCall' =
           [calls |-> 1, contextKey |-> contextKey, contextScale |-> contextScale,
            sampleKey |-> sampleKey, sampleScale |-> sampleScale,
            score |-> KeyCompatibilities[contextKey, contextScale,
                                         sampleKey, sampleScale].score,
            before |-> NoKeyCall]
    /\ UNCHANGED <<now, ticks, sessionVars, triggerVars, analyzerVars, scored, pitchCall>>

\* calculateKeyCompatibility is called again, with other keys and the same scales
calculateKeyCompatibilityAgain(contextKey, sampleKey) ==
    /\ keyCall.calls = 1
    /\ keyCall' =
           [keyCall EXCEPT
               !.calls = 2, !.contextKey = contextKey, !.sampleKey = sampleKey,
               !.score = KeyCompatibilities[contextKey, keyCall.contextScale,
                                            sampleKey, keyCall.sampleScale].score,
               !.before = [contextKey |-> keyCall.contextKey,
                           sampleKey |-> keyCall.sampleKey,
                           score |-> keyCall.score]]
    /\ UNCHANGED <<now, ticks, sessionVars, triggerVars, analyzerVars, scored, pitchCall>>

\* The key names in the three ways of writing their letters, and the key
\* names the key estimator gives
KeySpellings ==
    KeyNames \cup {toLowerCase(keyName) : keyName \in KeyNames}
             \cup {toUpperCase(keyName) : keyName \in KeyNames}
             \cup {KEY_TEMPLATES[i].key : i \in 1..Len(KEY_TEMPLATES)}

\* getPitchClass of every spelling, computed once
PitchClasses == [keyName \in KeySpellings |-> getPitchClass(keyName)]

NoPitchCall == [keyName |-> NoString, pitchClass |-> NoNumber]

\* getPitchClass is called, as calculateKeyCompatibility calls it for the
\* context key and then for the sample key
getPitchClassCall(keyName) ==
    /\ pitchCall.calls < 2
    /\ pitchCall' = [calls |-> pitchCall.calls + 1, keyName |-> keyName,
                     pitchClass |-> PitchClasses[keyName],
                     before |-> [keyName |-> pitchCall.keyName,
                                 pitchClass |-> pitchCall.pitchClass]]
    /\ UNCHANGED <<now, ticks, sessionVars, triggerVars, analyzerVars, keyCall, scored>>

\* Samples as the analysis of an upload describes them, with a key, a scale,
\* an energy level or a groove description missing (omitted, or null), and
\* with the tags calculatePlaybackConfig looks for in either list
ScorerSamples ==
    { Sample("upload", "one-shot", key, scale, energyLevel, groove, 0, <<>>, <<>>) :
          key \in {NoString, "C", "F#"}, scale \in {NoString, "Major"},
          energyLevel \in {NoNumber, null, 3, 9},
          groove \in {NoString, "dense driving percussion", "sparse ambient"} }
    \cup
    { Sample("upload", "one-shot", "C", "Major", energyLevel,
             "dense driving percussion", 0, moods, uses) :
          energyLevel \in {3, 9},
          moods \in {<<>>, <<"ambient">>, <<"background">>},
          uses \in {<<>>, <<"ambient">>, <<"background">>} }
    \cup
    { Sample("upload", "one-shot", "A", scale, 9, "dense driving percussion", 0,
             <<>>, <<>>) :
          scale \in {NoString, "Major"} }
    \cup
    { Sample("upload", "one-shot", "C", "Major", 9, "Swung 16ths", 0, <<>>, <<>>) }
    \cup
    { Sample("upload", "one-shot", key, scale, 9, "dense driving percussion", 0,
             <<>>, <<>>) :
          key \in {"Am", "F#"}, scale \in {"major", "minor"} }
    \cup
    { Sample("upload", "fx", NoString, NoString, energyLevel, NoString, 0, <<>>, <<>>) :
          energyLevel \in {NoNumber, null} }

\* Snapshots with a key, a scale, an energy or a beat density missing
ScorerContexts ==
    { [key |-> key, scale |-> scale, energy |-> energy, beatDensity |-> beatDensity] :
          key \in {NoString, "C", "A"}, scale \in {NoString, "Major"},
          energy \in {DUndefined, D02, D03, D05, D07, D08},
          beatDensity \in {DUndefined, D02, D09} }

\* No playbackConfig: the sample was not selected
NoPlaybackConfig == [volume |-> DUndefined, pitchShift |-> 0]

NoScore ==
    [calls |-> 0, sample |-> Sample("", "", "", "", NoNumber, "", NoNumber, <<>>, <<>>),
     context |-> [key |-> NoString, scale |-> NoString, energy |-> DUndefined,
                  beatDensity |-> DUndefined],
     keyScore |-> DUndefined, energyScore |-> DUndefined, rhythmScore |-> DUndefined,
     totalScore |-> DUndefined, pitchShift |-> 0, trigger |-> FALSE, volume |-> DUndefined,
     playbackConfig |-> NoPlaybackConfig]

\* One iteration of each loop of evaluateAndTrigger for a sample that was
\* never fired: shouldTriggerSample and, for a sample to fire,
\* calculatePlaybackConfig
scoreSample(sample, context) ==
    /\ scored.calls = 0
    /\ \E score \in {totalScore(sample, context)} :
       \E trigger \in {sample.sampleType \in {"one-shot", "fx"}
                          /\ ~(now - 0 < minInterval(sample))
                          /\ DGt(score.total, triggerThreshold)} :
          scored' = [calls |-> 1, sample |-> sample, context |-> context,
                     keyScore |-> score.keyScore, energyScore |-> score.energyScore,
                     rhythmScore |-> score.rhythmScore, totalScore |-> score.total,
                     pitchShift |-> score.pitchShift,
                     trigger |-> trigger,
                     volume |-> IF trigger
                                THEN calculatePlaybackConfig(sample, context,
                                                             score.pitchShift).volume
                                ELSE DUndefined,
                     playbackConfig |->
                         IF trigger
                         THEN calculatePlaybackConfig(sample, context, score.pitchShift)
                         ELSE NoPlaybackConfig]
    /\ UNCHANGED <<now, ticks, sessionVars, triggerVars, analyzerVars, keyCall, pitchCall>>

----------------------------------------------------------------------------
(* The state after construction, and the specifications *)

\* Everything but the flux history of the analyzer
InitButFluxHistory ==
    /\ now = StartTime
    /\ ticks = 0
    /\ audioBufferQueue = <<>>
    /\ accumulatedBufferLength = 0
    /\ lastAnalysisTime = 0
    /\ cycles = <<>>
    /\ delivered = <<>>
    /\ ingested = 0
    /\ lastCall = [len |-> 0, evicted |-> 0, started |-> FALSE, threw |-> FALSE]
    /\ samples = <<>>
    /\ newSamples = <<>>
    /\ lastTriggerTimes = [i \in {} |-> 0]
    /\ passes = <<>>
    /\ plays = {}
    /\ callbacks = {}
    /\ failures = {}
    /\ prevSpectrum = [i \in 1..NumBins |-> D0]
    /\ frequencyData = [i \in 1..NumBins |-> 0]
    /\ awaitingTimer = <<>>
    /\ analysisCalls = 0
    /\ returned = 0
    /\ lastReturn = [input |-> [kind |-> "none", length |-> 0], threw |-> FALSE,
                     context |-> defaultContext,
                     frame |-> <<>>, previous |-> <<>>, spectralFlux |-> D0]
    /\ keyCall = [calls |-> 0, contextKey |-> NoString, contextScale |-> NoString,
                    sampleKey |-> NoString, sampleScale |-> NoString,
                    score |-> DUndefined, before |-> NoKeyCall]
    /\ scored = NoScore
    /\ pitchCall = [calls |-> 0, keyName |-> NoString, pitchClass |-> NoNumber,
                    before |-> NoPitchCall]

Init == InitButFluxHistory /\ spectralFluxHistory = <<>>

\* The analyzer after construction, or after it has analysed silence
\* MaxQuiet times: the spectrum is still zero, the history holds zero fluxes
InitAnalyzer ==
    InitButFluxHistory /\ spectralFluxHistory \in {<<>>, [i \in 1..MaxQuiet |-> D0]}

\* The aggregator fed by the generation source
NextSession ==
    \/ \E len \in BufferLengths, combineThrows \in BOOLEAN :
           handleNewLyriaAudioBuffer(len, combineThrows)
    \/ \E i \in 1..MaxBuffers, ok \in BOOLEAN : AnalysisDone(i, ok)
    \/ \E d \in SessionSteps : SessionTick(d)
SpecSession == Init /\ [][NextSession]_vars

\* The scheduler called with feature snapshots: handleMusicalContextUpdate
\* starts a pass for every snapshot and does not await the pass before
SpecTrigger == Init /\ [][TriggerStep]_vars

\* The scheduler when every pass ends before the next one starts
SerialStep ==
    \/ \E c \in Contexts : Awaiting = {} /\ evaluateAndTrigger(c)
    \/ \E p \in 1..MaxPasses : playSampleResolves(p)
    \/ \E p \in 1..MaxPasses : playSampleRejects(p)
    \/ \E cat \in Catalogs : updateSamples(cat)
    \/ \E d \in TriggerSteps : TriggerTick(d)
SpecSerial == Init /\ [][SerialStep]_vars

\* The analyzer called with input buffers, its timers firing in any order
NextAnalyzer ==
    \/ \E inputBuffer \in InputBuffers : analyzeRealTimeContext(inputBuffer)
    \/ \E k \in 1..MaxAnalyses, frame \in Frames : timerFires(k, frame)
SpecAnalyzer == InitAnalyzer /\ [][NextAnalyzer]_vars

\* calculateKeyCompatibility called for two pairs of keys
NextKeys ==
    \/ /\ keyCall.calls = 0
       /\ \E contextKey \in KeyNames, contextScale \in ScaleNames,
             sampleKey \in KeyNames, sampleScale \in ScaleNames :
               calculateKeyCompatibilityCall(contextKey, contextScale, sampleKey, sampleScale)
    \/ /\ keyCall.calls = 1
       /\ \E contextKey \in KeyNames, sampleKey \in KeyNames :
               calculateKeyCompatibilityAgain(contextKey, sampleKey)
SpecKeys == Init /\ [][NextKeys]_vars

\* The scorer called for one sample and one snapshot
NextScorer == \E sample \in ScorerSamples, context \in ScorerContexts : scoreSample(sample, context)
SpecScorer == Init /\ [][NextScorer]_vars

\* getPitchClass called for two key names
NextPitch == \E keyName \in KeySpellings : getPitchClassCall(keyName)
SpecPitch == Init /\ [][NextPitch]_vars

----------------------------------------------------------------------------
(* Properties of the trigger scheduler *)

Abs(x) == IF x < 0 THEN -x ELSE x
Played(p, id) == \E c \in plays : c.pass = p /\ c.id = id
Finished == {p \in 1..Len(passes) : passes[p].state # "awaiting"}
AutoTypes == {"one-shot", "fx"}

\* 4 * keyScore + 3 * energyScore + 3 * rhythmScore > 7 in exact arithmetic:
\* the three sub-scores are non-negative binary fractions, brought to one
\* exponent and summed without rounding
ExceedsSevenTenths(score) ==
    LET parts == <<score.keyScore, score.energyScore, score.rhythmScore>>
        emin == MinOf({0} \cup {parts[i].e : i \in 1..3})
        At(d) == IF d.m = <<>> THEN <<>> ELSE BShl(d.m, d.e - emin)
        sum == BAdd(BShl(At(parts[1]), 2),
                    BAdd(BMulSmall(At(parts[2]), 3), BMulSmall(At(parts[3]), 3)))
    IN  BCmp(sum, BShl(BFromInt(7), -emin)) > 0

\* C1: in a run without a failed play, whatever the interleaving of the
\* passes, two play commands for one sample id are never issued less than
\* that sample's minimumIntervalMs apart.
C1_PlaysKeepMinimumInterval ==
    failures = {} =>
        \A a \in plays, b \in plays :
            (a # b /\ a.id = b.id) => Abs(a.t - b.t) >= minInterval(SampleOf(a.id))

\* C3: when the play call of a selected sample fails at time t, a time not
\* before t is recorded for that sample in lastTriggerTimes.
C3_FailedPlayIsRecorded ==
    \A f \in failures :
        f.id \in DOMAIN lastTriggerTimes /\ lastTriggerTimes[f.id] >= f.t

\* C4: when a pass selected several samples and the play call of one of them
\* failed, every selected sample of the pass has its play command and the
\* pass has not ended with an error.
C4_FailureIsContained ==
    \A p \in Finished :
        (Len(passes[p].selected) >= 2 /\ \E f \in failures : f.pass = p) =>
            /\ passes[p].state # "error"
            /\ \A k \in 1..Len(passes[p].selected) : Played(p, passes[p].selected[k].id)

\* C5: with one pass at a time, for a catalog sample whose interval is 3000 ms
\* (stated or by default) and whose last firing was recorded at T, a pass that
\* started by T + 2999 issued no play command for it, and a pass that started
\* at T + 3000 or later issued one if the sample is a one-shot or an fx and its
\* score exceeds 0.7.
C5_IntervalBoundary ==
    \A p \in Finished :
        \A k \in 1..Len(passes[p].catalog) :
            LET id == passes[p].catalog[k]
                sample == SampleOf(id)
                times == passes[p].timesAtStart
            IN  (minInterval(sample) = 3000 /\ id \in DOMAIN times) =>
                    /\ passes[p].start <= times[id] + 2999 => ~Played(p, id)
                    /\ ( /\ passes[p].start >= times[id] + 3000
                         /\ sample.sampleType \in AutoTypes
                         /\ DGt(Scores[passes[p].context, sample].total, D07) )
                       => Played(p, id)

\* C6: a sample whose type is neither "one-shot" nor "fx" never receives a
\* play command and never has an entry in lastTriggerTimes.
C6_OnlyOneShotsAndFxFire ==
    /\ \A c \in plays : SampleOf(c.id).sampleType \in AutoTypes
    /\ \A id \in DOMAIN lastTriggerTimes : SampleOf(id).sampleType \in AutoTypes

\* A pass over a catalog with a loop and a sample without a type, both
\* scoring above the bar, has ended after firing another sample.
C6_LoopPassedOver ==
    \E p \in Finished :
        /\ passes[p].state = "done"
        /\ Played(p, "stab")
        /\ \A id \in {"break", "vox"} :
              /\ \E k \in 1..Len(passes[p].catalog) : passes[p].catalog[k] = id
              /\ DGt(Scores[passes[p].context, SampleOf(id)].total, D07)

\* C7: a sample that received a play command has a combined score
\* 0.4 * keyScore + 0.3 * energyScore + 0.3 * rhythmScore strictly greater
\* than 0.7; a score of exactly 0.7 does not fire.
C7_PlayedOnlyAboveSevenTenths ==
    \A c \in plays :
        ExceedsSevenTenths(Scores[passes[c.pass].context, SampleOf(c.id)])

\* The boundary of C5_IntervalBoundary in the passes none of whose play calls
\* failed: what remains of it when the failure of C4_FailureIsContained is
\* set aside.
IntervalBoundaryWithoutFailure ==
    \A p \in Finished :
        \A k \in 1..Len(passes[p].catalog) :
            LET id == passes[p].catalog[k]
                sample == SampleOf(id)
                times == passes[p].timesAtStart
            IN  (passes[p].state = "done" /\ minInterval(sample) = 3000 /\ id \in DOMAIN times) =>
                    /\ passes[p].start <= times[id] + 2999 => ~Played(p, id)
                    /\ ( /\ passes[p].start >= times[id] + 3000
                         /\ sample.sampleType \in AutoTypes
                         /\ DGt(Scores[passes[p].context, sample].total, D07) )
                       => Played(p, id)

\* The rule of C7_PlayedOnlyAboveSevenTenths with the score as the code
\* computes it, in binary64 and in the order of the source expression: in a
\* pass all of whose play calls succeeded, a catalog sample has a play command
\* iff it is a one-shot or an fx, its interval had elapsed when the pass
\* started and its computed score is greater than the double nearest to 0.7.
ComputedScoreRule ==
    \A p \in Finished :
        passes[p].state = "done" =>
            \A k \in 1..Len(passes[p].catalog) :
                LET id == passes[p].catalog[k]
                    sample == SampleOf(id)
                IN  Played(p, id) <=>
                        /\ sample.sampleType \in AutoTypes
                        /\ passes[p].start - lastTriggerTime(passes[p].timesAtStart, id)
                               >= minInterval(sample)
                        /\ DGt(Scores[passes[p].context, sample].total, D07)

----------------------------------------------------------------------------
(* Properties of the session *)

\* C2: at most one analysis cycle is in flight at any time.
C2_OneCycleInFlight == Cardinality(Analysing) <= 1

\* C8: after every handleNewLyriaAudioBuffer call the queued duration is at
\* most 2.0 seconds and accumulatedBufferLength is the sum of the lengths of
\* the queued buffers.
C8_WindowBoundedAndExact ==
    /\ accumulatedBufferLength <= maxBufferDurationSecs * sampleRate
    /\ accumulatedBufferLength = SumSeq(audioBufferQueue)

\* A call evicted two buffers and left a non-empty queue.
C8_TwoBuffersEvicted == lastCall.evicted >= 2 /\ Len(audioBufferQueue) >= 1

\* C9: a cycle starts only in a step that ingests a buffer, with a non-empty
\* queue, and not less than 500 ms after the start of the previous cycle.
C9_CycleStartsOnlyWhenDue ==
    [][Len(cycles') > Len(cycles) =>
          /\ ingested' = ingested + 1
          /\ Len(audioBufferQueue') > 0
          /\ Len(cycles) > 0 => now' - cycles[Len(cycles)].start >= 500]_vars

\* A second cycle has started, and a call made exactly 500 ms after the start
\* of a cycle has started none.
C9_SecondCycleStarted ==
    /\ Len(cycles) >= 2
    /\ lastCall.len > 0 /\ ~lastCall.started
    /\ now = cycles[Len(cycles)].start + 500

\* C10: snapshots are delivered in the order in which their cycles started.
C10_DeliveredInStartOrder ==
    \A i \in 1..Len(delivered), j \in 1..Len(delivered) :
        i < j => delivered[i] < delivered[j]

\* C11: a cycle leaves audioBufferQueue and accumulatedBufferLength as they
\* are. The step that starts a cycle leaves in the queue exactly the buffers
\* of the cycle's snapshot; the step that ends a cycle, delivered or failed,
\* changes neither; and whenever the queue changes, a buffer was ingested and
\* the queue is the old queue with the new buffer, less the oldest buffers
\* that had to go for the 2.0 s cap.
C11_CycleLeavesQueue ==
    [][ /\ Len(cycles') > Len(cycles) =>
              /\ audioBufferQueue' = cycles'[Len(cycles')].snapshot
              /\ accumulatedBufferLength' = SumSeq(cycles'[Len(cycles')].snapshot)
        /\ (cycles' # cycles /\ Len(cycles') = Len(cycles)) =>
              UNCHANGED <<audioBufferQueue, accumulatedBufferLength>>
        /\ audioBufferQueue' # audioBufferQueue =>
              /\ ingested' = ingested + 1
              /\ \E k \in 0..(Len(audioBufferQueue) + 1) :
                    LET all == Append(audioBufferQueue, lastCall'.len)
                    IN  /\ audioBufferQueue' = SubSeq(all, k + 1, Len(all))
                        /\ k > 0 => SumSeq(SubSeq(all, k, Len(all)))
                                        > maxBufferDurationSecs * sampleRate ]_vars

\* A first cycle was delivered and a second one failed; the second analysed
\* the buffer of the first again with a newer one, and both are still queued.
C11_AnalysedBuffersStillQueued ==
    /\ Len(cycles) >= 2
    /\ cycles[1].state = "delivered" /\ cycles[2].state = "failed"
    /\ Len(cycles[2].snapshot) = Len(cycles[1].snapshot) + 1
    /\ SubSeq(cycles[2].snapshot, 1, Len(cycles[1].snapshot)) = cycles[1].snapshot
    /\ audioBufferQueue = cycles[2].snapshot


\* C12: a call of analyzeRealTimeContext with a null, undefined or zero-length
\* input buffer returns without throwing, its snapshot has energy 0,
\* beatDensity 0, onsets [false], no key, no scale and no dominant frequency,
\* and prevSpectrum and spectralFluxHistory are what they were before the call.
C12_NotAnalysable(inputBuffer) ==
    inputBuffer.kind \in {"null", "undefined"} \/ inputBuffer.length = 0

C12_DefaultForUnusableInput ==
    [][ \A inputBuffer \in InputBuffers :
           (C12_NotAnalysable(inputBuffer) /\ analysisCalls < MaxAnalyses
                /\ analysisCalls' = analysisCalls + 1
                /\ (awaitingTimer' = Append(awaitingTimer, inputBuffer)
                        \/ (awaitingTimer' = awaitingTimer /\ lastReturn'.input = inputBuffer)))
           => /\ returned' = returned + 1
              /\ awaitingTimer' = awaitingTimer
              /\ lastReturn'.input = inputBuffer
              /\ ~lastReturn'.threw
              /\ lastReturn'.context.energy = D0
              /\ lastReturn'.context.beatDensity = D0
              /\ lastReturn'.context.onsets = <<FALSE>>
              /\ lastReturn'.context.key = NoString
              /\ lastReturn'.context.scale = NoString
              /\ lastReturn'.context.dominantFrequencies = <<>>
              /\ UNCHANGED <<prevSpectrum, spectralFluxHistory>> ]_vars

\* An empty buffer was answered after an analysis had left a spectrum and a
\* flux in the rolling state
C12_EmptyBufferAfterAnalysis ==
    /\ lastReturn.input = [kind |-> "AudioBuffer", length |-> 0]
    /\ returned = 2
    /\ Len(spectralFluxHistory) = 1
    /\ \E i \in 1..NumBins : prevSpectrum[i] # D0
\* C13: a pass evaluates the catalog of the latest updateSamples call and
\* nothing else: when it starts, its catalog is the argument of that call and
\* it selects among exactly those entries; an updateSamples call during a pass
\* changes neither the catalog nor the selection of the pass, and every
\* playSample call of the pass is for a sample of the catalog it started with.
C13_IdsOf(catalog) == {catalog[k] : k \in 1..Len(catalog)}

C13_FullReplacement ==
    [][ /\ Len(passes') > Len(passes) =>
              /\ passes'[Len(passes')].catalog = newSamples
              /\ passes'[Len(passes')].selected =
                     eligibleSamples(newSamples, passes'[Len(passes')].context,
                                     now, lastTriggerTimes)
        /\ \A p \in 1..Len(passes) :
              /\ passes'[p].catalog = passes[p].catalog
              /\ passes'[p].selected = passes[p].selected
        /\ \A c \in plays' \ plays :
              /\ c.id \in C13_IdsOf(passes'[c.pass].catalog)
              /\ \E k \in 1..Len(passes'[c.pass].selected) :
                    passes'[c.pass].selected[k].id = c.id
        /\ samples' # samples => samples' = newSamples' ]_vars

\* The first pass called playSample for a sample of its own catalog after the
\* second pass had started on another catalog
C13_PassOutlivesItsCatalog ==
    /\ Len(passes) = 2
    /\ passes[2].selected # <<>>
    /\ C13_IdsOf(passes[1].catalog) \cap C13_IdsOf(passes[2].catalog) = {}
    /\ samples = passes[2].catalog
    /\ \E c \in plays : c.pass = 1 /\ c.t > passes[2].start
\* C14: when calculateKeyCompatibility is called for a context key and a
\* sample key, and again for the keys k semitones above both (k in 0..11, in
\* any spelling) with the same scale names, the two scores are equal.
\* C14_Semitones is the pitch of a key name in semitones above C.
C14_Semitones ==
    [keyName \in KeyNames |->
        LET letter == CHOOSE n \in {"C", "D", "E", "F", "G", "A", "B"} :
                          \E rest \in {"", "#", "b"} : keyName = n \o rest
            natural == CASE letter = "C" -> 0 [] letter = "D" -> 2 [] letter = "E" -> 4
                         [] letter = "F" -> 5 [] letter = "G" -> 7 [] letter = "A" -> 9
                         [] letter = "B" -> 11
        IN  (natural + (IF keyName = letter \o "#" THEN 1
                        ELSE IF keyName = letter \o "b" THEN 11 ELSE 0)) % 12]

C14_TransposedBy(k) ==
    /\ keyCall.calls = 2
    /\ C14_Semitones[keyCall.contextKey]
           = (C14_Semitones[keyCall.before.contextKey] + k) % 12
    /\ C14_Semitones[keyCall.sampleKey]
           = (C14_Semitones[keyCall.before.sampleKey] + k) % 12

C15_NeutralWhenMissing ==
    scored.calls = 1 =>
        /\ (scored.context.key = NoString \/ scored.context.scale = NoString
                \/ scored.sample.key = NoString \/ scored.sample.scale = NoString)
              => (scored.keyScore = D05 /\ scored.pitchShift = 0)
        /\ (scored.context.energy = DUndefined
                \/ scored.sample.energyLevel \in {NoNumber, null})
              => scored.energyScore = D05
        /\ scored.context.beatDensity = DUndefined => scored.rhythmScore = D05
        /\ scored.keyScore = calculateKeyCompatibility(scored.context.key,
               scored.context.scale, scored.sample.key, scored.sample.scale).score
        /\ scored.energyScore = calculateEnergyMatch(scored.context.energy,
                                                     scored.sample.energyLevel)
        /\ scored.rhythmScore = calculateRhythmicFit(scored.context.beatDensity,
                                                     scored.sample.grooveDescription)

\* The same for a missing energy level that is undefined, not null
C15_NeutralWhenUndefined ==
    scored.calls = 1 =>
        /\ (scored.context.key = NoString \/ scored.context.scale = NoString
                \/ scored.sample.key = NoString \/ scored.sample.scale = NoString)
              => (scored.keyScore = D05 /\ scored.pitchShift = 0)
        /\ (scored.context.energy = DUndefined \/ scored.sample.energyLevel = NoNumber)
              => scored.energyScore = D05
        /\ scored.context.beatDensity = DUndefined => scored.rhythmScore = D05

\* A sample whose energy level is null scored 0 for energy against a
\* snapshot of energy 0.8, with its key and rhythm scores computed
C15_NullEnergyLevelScoresZero ==
    /\ scored.calls = 1
    /\ scored.sample.energyLevel = null
    /\ scored.context.energy = D08
    /\ scored.energyScore = D0
    /\ scored.keyScore = D1
    /\ scored.rhythmScore = DAdd(DMul(D09, D08), D01)
\* The snapshot of the two end-to-end scenarios
ScenarioContext == [key |-> "C", scale |-> "Major", energy |-> D08, beatDensity |-> D09]
ScenarioPasses == {p \in 1..Len(passes) : passes[p].context = ScenarioContext}
PositionIn(selected, id) == {k \in 1..Len(selected) : selected[k].id = id}

\* C16: for the snapshot {energy 0.8, C Major, beatDensity 0.9} and the
\* one-shot kick (C Major, energyLevel 9, "dense driving percussion",
\* minimumIntervalMs 0) that has not fired before, the key score is 1.0, the
\* energy score 1 - |0.8 - 8/9| * 1.5, the rhythm score 0.9 * 0.8 + 0.1 and the
\* combined score above 0.7; the pass selects the sample with pitch shift 0
\* and, when its loop reaches the sample, calls playSample with pitch shift 0.
C16_EnergyScore == DSub(D1, DMul(DAbs(DSub(D08, DQuot(DFromInt(8), DFromInt(9)))), D15))
C16_RhythmScore == DAdd(DMul(D09, D08), D01)

C16_ScenarioOneFires ==
    \A p \in ScenarioPasses :
        ("kick" \in C13_IdsOf(passes[p].catalog)
             /\ "kick" \notin DOMAIN passes[p].timesAtStart)
        => /\ Scores[ScenarioContext, SampleOf("kick")].keyScore = D1
           /\ Scores[ScenarioContext, SampleOf("kick")].energyScore = C16_EnergyScore
           /\ Scores[ScenarioContext, SampleOf("kick")].rhythmScore = C16_RhythmScore
           /\ DGt(Scores[ScenarioContext, SampleOf("kick")].total, D07)
           /\ \E k \in PositionIn(passes[p].selected, "kick") :
                 /\ passes[p].selected[k].pitchShift = 0
                 /\ (passes[p].state = "done" \/ passes[p].next >= k)
                       => \E c \in plays : /\ c.pass = p /\ c.id = "kick"
                                           /\ c.config.pitchShift = 0

\* A pass for the scenario's snapshot has called playSample for the kick,
\* which had not fired before
C16_KickPlayed ==
    \E p \in ScenarioPasses :
        /\ "kick" \notin DOMAIN passes[p].timesAtStart
        /\ \E c \in plays : c.pass = p /\ c.id = "kick" /\ c.config.pitchShift = 0

\* C17: for the same snapshot and the fx riser (F# Minor, energyLevel 2,
\* "sparse ambient", minimumIntervalMs 0) the combined score is below 0.7,
\* the pass does not select the sample and never calls playSample for it.
C17_ScenarioTwoSilent ==
    \A p \in ScenarioPasses :
        "riser" \in C13_IdsOf(passes[p].catalog)
        => /\ DLt(Scores[ScenarioContext, SampleOf("riser")].total, D07)
           /\ PositionIn(passes[p].selected, "riser") = {}
           /\ ~\E c \in plays : c.pass = p /\ c.id = "riser"

\* A pass for the scenario's snapshot over a catalog with the riser has
\* ended, having played other samples
C17_PassEndedWithoutRiser ==
    \E p \in ScenarioPasses :
        /\ "riser" \in C13_IdsOf(passes[p].catalog)
        /\ passes[p].state = "done"
        /\ passes[p].selected # <<>>
        /\ \A k \in 1..Len(passes[p].selected) :
              \E c \in plays : c.pass = p /\ c.id = passes[p].selected[k].id
\* C18: the volume of every firing is 0.7, or 0.4 if "background" or
\* "ambient" is among the sample's mood tags or among its suggested uses,
\* multiplied by 0.7 if the context energy is below 0.3 and by 1.1 if it is
\* above 0.7, and then clamped; it lies in [0.1, 1.0].
C18_Energies == {DUndefined, D02, D03, D05, D07, D08}
C18_Has(tags, tag) == \E i \in 1..Len(tags) : tags[i] = tag
C18_Tagged(sample) ==
    \E tag \in {"background", "ambient"} :
        C18_Has(sample.moodTags, tag) \/ C18_Has(sample.suggestedHipHopUses, tag)
C18_TaggedAsTested(sample) ==
    C18_Has(sample.suggestedHipHopUses, "background") \/ C18_Has(sample.moodTags, "ambient")
C18_Volume ==
    [tagged \in BOOLEAN, energy \in C18_Energies |->
        DMax(D01, DMin(D1,
            IF energy = DUndefined THEN (IF tagged THEN D04 ELSE D07)
            ELSE IF DLt(energy, D03) THEN DMul(IF tagged THEN D04 ELSE D07, D07)
            ELSE IF DGt(energy, D07) THEN DMul(IF tagged THEN D04 ELSE D07, D11)
            ELSE (IF tagged THEN D04 ELSE D07)))]

C18_VolumeOfEveryFiring ==
    (scored.calls = 1 /\ scored.trigger) =>
        /\ scored.volume = C18_Volume[C18_Tagged(scored.sample), scored.context.energy]
        /\ ~DLt(scored.volume, D01) /\ ~DGt(scored.volume, D1)

\* The same with 0.4 only for "background" among the suggested uses or
\* "ambient" among the mood tags
C18_VolumeAsTested ==
    (scored.calls = 1 /\ scored.trigger) =>
        /\ scored.volume
               = C18_Volume[C18_TaggedAsTested(scored.sample), scored.context.energy]
        /\ ~DLt(scored.volume, D01) /\ ~DGt(scored.volume, D1)

\* A sample with the mood tag "background" fired at 0.7
C18_BackgroundMoodAtFullVolume ==
    /\ scored.calls = 1 /\ scored.trigger
    /\ scored.sample.moodTags = <<"background">>
    /\ scored.sample.suggestedHipHopUses = <<>>
    /\ scored.context.energy = D05
    /\ scored.volume = D07
\* C19: the spectral flux of every analysis is the sum over the bins, in
\* order, of max(0, A[i] - B[i]) for the current spectrum A and the previous
\* spectrum B; it is not negative, and it is 0 when A = B.
RECURSIVE C19_RectifiedSum(_, _, _)
C19_RectifiedSum(A, B, i) ==
    IF i = 0 THEN D0
    ELSE DAdd(C19_RectifiedSum(A, B, i - 1), DMax(D0, DSub(A[i], B[i])))

C19_FluxIsRectified ==
    lastReturn.frame # <<>> =>
        /\ lastReturn.spectralFlux
               = C19_RectifiedSum(prevSpectrum, lastReturn.previous, Len(prevSpectrum))
        /\ ~DLt(lastReturn.spectralFlux, D0)
        /\ prevSpectrum = lastReturn.previous => lastReturn.spectralFlux = D0
        /\ spectralFluxHistory[Len(spectralFluxHistory)] = lastReturn.spectralFlux

\* An analysis in which the first bin rose from -60 dB to -20 dB and the second
\* fell from -20 dB to silence: the flux is the rise of the first bin alone
C19_OneBinRoseOneFell ==
    /\ lastReturn.frame = <<-20, Silence>>
    /\ lastReturn.previous = <<Float32Pow10(-60), Float32Pow10(-20)>>
    /\ lastReturn.spectralFlux = DSub(Float32Pow10(-20), Float32Pow10(-60))
\* C20: the beatDensity and the energy of every snapshot the analyzer returns
\* lie in [0, 1]; for a spectrum without signal in any bin both are 0; and
\* the divisor of the density, meanFlux + 1e-6, is above 0, so that no
\* quotient is NaN.
C20_MeanFlux ==
    DQuot(sumFluxFrom(spectralFluxHistory, 1, Len(spectralFluxHistory), D0),
          DFromInt(Len(spectralFluxHistory)))

C20_DensityAndEnergyInRange ==
    /\ ~DLt(lastReturn.context.beatDensity, D0) /\ ~DGt(lastReturn.context.beatDensity, D1)
    /\ ~DLt(lastReturn.context.energy, D0) /\ ~DGt(lastReturn.context.energy, D1)
    /\ lastReturn.frame # <<>> =>
          /\ DGt(DAdd(C20_MeanFlux, D1em6), D0)
          /\ (\A i \in 1..NumBins : lastReturn.frame[i] = Silence)
                => /\ lastReturn.spectralFlux = D0
                   /\ lastReturn.context.beatDensity = D0
                   /\ lastReturn.context.energy = D0

\* After silence only, a frame with signal gives a flux many times the mean:
\* the density is cut to 1, and the energy, with every bin at full scale, too
C20_BothAtOne ==
    /\ lastReturn.frame = <<-20, -20>>
    /\ Len(spectralFluxHistory) = MaxQuiet + 1
    /\ lastReturn.context.beatDensity = D1
    /\ lastReturn.context.energy = D1

\* Silence after silence: zero flux and zero mean flux
C20_SilenceAfterSilence ==
    /\ lastReturn.frame = <<Silence, Silence>>
    /\ \A i \in 1..Len(spectralFluxHistory) : spectralFluxHistory[i] = D0
    /\ lastReturn.context.beatDensity = D0
    /\ lastReturn.context.energy = D0

----------------------------------------------------------------------------
(* Properties of the key compatibility and of the rhythmic fit *)

\* The pitch of a key name of KeyNames in semitones above C, 12 standing for
\* a name outside KeyNames
C21_Pitch(keyName) == IF keyName \in KeyNames THEN C14_Semitones[keyName] ELSE 12

\* shift is a smallest signed number of semitones from pitch `from` to `to`
C21_SmallestShift(shift, from, to) ==
    /\ shift \in -6..6
    /\ (from + shift) % 12 = to
    /\ \A other \in -11..11 : (from + other) % 12 = to => Abs(shift) <= Abs(other)

\* C21 as stated: whenever shouldTriggerSample scores a sample whose key and
\* the key of the snapshot both name a pitch class, the pitch shift it
\* returns is a smallest signed shift from the sample's pitch class to the
\* snapshot's, within -6..6, and a sample that fires is played with a
\* playbackConfig holding that pitch shift.
C21_ShiftOfResolvedKeys ==
    (scored.calls = 1 /\ C21_Pitch(scored.sample.key) < 12
                      /\ C21_Pitch(scored.context.key) < 12) =>
        /\ C21_SmallestShift(scored.pitchShift, C21_Pitch(scored.sample.key),
                             C21_Pitch(scored.context.key))
        /\ scored.trigger => scored.playbackConfig.pitchShift = scored.pitchShift

\* C21, amended: the same when both scale names are present too.
C21_ShiftOfResolvedKeysWithScales ==
    (scored.calls = 1 /\ C21_Pitch(scored.sample.key) < 12
                      /\ C21_Pitch(scored.context.key) < 12
                      /\ scored.sample.scale # NoString
                      /\ scored.context.scale # NoString) =>
        /\ C21_SmallestShift(scored.pitchShift, C21_Pitch(scored.sample.key),
                             C21_Pitch(scored.context.key))
        /\ scored.trigger => scored.playbackConfig.pitchShift = scored.pitchShift

\* A sample in C fired against a snapshot in A, played three semitones down
C21_FiredThreeSemitonesDown ==
    /\ scored.calls = 1
    /\ scored.sample.key = "C" /\ scored.context.key = "A"
    /\ scored.sample.scale = "Major" /\ scored.context.scale = "Major"
    /\ scored.trigger
    /\ scored.pitchShift = -3
    /\ scored.playbackConfig.pitchShift = -3

\* A sample in F# without a scale name fired against a snapshot in C Major
\* with no pitch shift
C21_FiredUnshiftedWithoutScale ==
    /\ scored.calls = 1
    /\ scored.sample.key = "F#" /\ scored.sample.scale = NoString
    /\ scored.context.key = "C" /\ scored.context.scale = "Major"
    /\ scored.trigger
    /\ scored.playbackConfig.pitchShift = 0

\* C22: whenever calculateKeyCompatibility is called with two keys that name
\* different pitch classes and two scale names that differ, the score is
\* 0.5; and the score of context C Major against sample F# Minor is between
\* 0.3 and 0.5.
C22_MismatchScoresHalf ==
    keyCall.calls >= 1 =>
        /\ (C21_Pitch(keyCall.contextKey) # C21_Pitch(keyCall.sampleKey)
                /\ toLowerCase(keyCall.contextScale) # toLowerCase(keyCall.sampleScale))
              => keyCall.score = D05
        /\ (keyCall.contextKey = "C" /\ keyCall.contextScale = "Major"
                /\ keyCall.sampleKey = "F#" /\ keyCall.sampleScale = "Minor")
              => (~DLt(keyCall.score, D03) /\ ~DGt(keyCall.score, D05))

\* Context C Major against sample F# Minor scored 0.8
C22_DistantKeysScoreFourFifths ==
    /\ keyCall.calls = 1
    /\ keyCall.contextKey = "C" /\ keyCall.contextScale = "Major"
    /\ keyCall.sampleKey = "F#" /\ keyCall.sampleScale = "Minor"
    /\ keyCall.score = D08

\* C23: whenever shouldTriggerSample scores a sample against a snapshot that
\* has a beat density, and the sample has no groove description or one that
\* contains none of the keywords sparse, minimal, ambient, dense, complex,
\* active, driving, percussive, rhythmic, the rhythm score is
\* 0.5 - |density - 0.5| clamped to [0, 1].
C23_Keywords == {"sparse", "minimal", "ambient", "dense", "complex", "active",
                 "driving", "percussive", "rhythmic"}
C23_Densities == {D02, D09}
C23_Fallback ==
    [density \in C23_Densities |->
        DMax(D0, DMin(D1, DSub(D05, DAbs(DSub(density, D05)))))]
C23_NoKeyword(desc) ==
    \A keyword \in C23_Keywords : ~includes(toLowerCase(desc), keyword)

C23_FallbackWithoutKeyword ==
    (scored.calls = 1 /\ scored.context.beatDensity \in C23_Densities
        /\ (scored.sample.grooveDescription = NoString
                \/ C23_NoKeyword(scored.sample.grooveDescription))) =>
        scored.rhythmScore = C23_Fallback[scored.context.beatDensity]

\* The same for a sample without a groove description only
C23_FallbackWithoutDescription ==
    (scored.calls = 1 /\ scored.context.beatDensity \in C23_Densities
        /\ scored.sample.grooveDescription = NoString) =>
        scored.rhythmScore = C23_Fallback[scored.context.beatDensity]

\* A groove description without a keyword scored 0.5 at density 0.9
C23_NoKeywordScoresHalf ==
    /\ scored.calls = 1
    /\ scored.sample.grooveDescription = "Swung 16ths"
    /\ scored.context.beatDensity = D09
    /\ scored.rhythmScore = D05

\* A sample without a groove description scored for rhythm at density 0.9
C23_NoDescriptionAtHighDensity ==
    /\ scored.calls = 1
    /\ scored.sample.grooveDescription = NoString
    /\ scored.context.beatDensity = D09
    /\ DLt(scored.rhythmScore, D05)

\* C24: whenever getPitchClass is called with one of C, C#, D, ..., B it
\* gives 0..11 in that order; with Db, Eb, Fb, Gb, Ab, Bb, Cb it gives what it
\* gives for C#, D#, E, F#, G#, A#, B; writing the letters in upper or lower
\* case changes nothing; and every key of KEY_TEMPLATES gets a pitch class.
C24_Names == <<"C", "C#", "D", "D#", "E", "F", "F#", "G", "G#", "A", "A#", "B">>
C24_Flats == <<"Db", "Eb", "Fb", "Gb", "Ab", "Bb", "Cb">>
C24_Sharps == <<"C#", "D#", "E", "F#", "G#", "A#", "B">>
C24_SameLetters(a, b) ==
    a \in {b, toLowerCase(b), toUpperCase(b)}

C24_FlatsAndCaseResolve ==
    pitchCall.calls >= 1 =>
        /\ \A i \in 1..12 : C24_SameLetters(pitchCall.keyName, C24_Names[i])
                               => pitchCall.pitchClass = i - 1
        /\ \A i \in 1..7 :
               (pitchCall.calls = 2
                   /\ C24_SameLetters(pitchCall.before.keyName, C24_Flats[i])
                   /\ C24_SameLetters(pitchCall.keyName, C24_Sharps[i]))
                 => (pitchCall.before.pitchClass = pitchCall.pitchClass
                        /\ pitchCall.pitchClass \in 0..11)
        /\ (\E i \in 1..Len(KEY_TEMPLATES) : KEY_TEMPLATES[i].key = pitchCall.keyName)
              => pitchCall.pitchClass \in 0..11

\* getPitchClass called for "gb" and then for "F#" gave 6 both times
C24_LowerCaseFlatThenSharp ==
    /\ pitchCall.calls = 2
    /\ pitchCall.before.keyName = "gb" /\ pitchCall.keyName = "F#"
    /\ pitchCall.before.pitchClass = 6 /\ pitchCall.pitchClass = 6

\* C26: whenever shouldTriggerSample scores a sample and the snapshot with
\* both keys and both scale names present: if both keys name a pitch class,
\* the sample's pitch class moved by the pitch shift is the snapshot's and
\* the key score is 1.0 for scale names equal but for case and 0.8 otherwise;
\* and a key score of 0.7, 0.5 or 0.3 is given only if a key names no pitch
\* class.
C26_AllPresent ==
    /\ scored.calls = 1
    /\ scored.sample.key # NoString /\ scored.sample.scale # NoString
    /\ scored.context.key # NoString /\ scored.context.scale # NoString
C26_BothResolve ==
    C21_Pitch(scored.sample.key) < 12 /\ C21_Pitch(scored.context.key) < 12

C26_ResolvedKeysAlwaysAlign ==
    C26_AllPresent =>
        /\ C26_BothResolve =>
              /\ (C21_Pitch(scored.sample.key) + scored.pitchShift) % 12
                     = C21_Pitch(scored.context.key)
              /\ scored.keyScore =
                     IF toLowerCase(scored.sample.scale) = toLowerCase(scored.context.scale)
                     THEN D1 ELSE D08
        /\ scored.keyScore \in {D07, D05, D03} => ~C26_BothResolve

\* A sample whose key "Am" names no pitch class scored 0.3 for key against a
\* snapshot in C Major
C26_UnresolvedKeyScoresLow ==
    /\ C26_AllPresent
    /\ scored.sample.key = "Am" /\ scored.sample.scale = "minor"
    /\ scored.context.key = "C" /\ scored.context.scale = "Major"
    /\ scored.keyScore = D03

\* A sample in F# minor scored 0.8 for key against a snapshot in C Major
C26_TritoneApartScoresFourFifths ==
    /\ C26_AllPresent
    /\ scored.sample.key = "F#" /\ scored.sample.scale = "minor"
    /\ scored.context.key = "C" /\ scored.context.scale = "Major"
    /\ scored.pitchShift = -6
    /\ scored.keyScore = D08

\* C27: whenever shouldTriggerSample scores a one-shot or an fx that has no
\* key, no scale, no energy level (undefined or null) and no groove
\* description, the combined score is at most 0.5 and the sample does not
\* fire.
C27_Bare(sample) ==
    /\ sample.sampleType \in AutoTypes
    /\ sample.key = NoString /\ sample.scale = NoString
    /\ sample.energyLevel \in {NoNumber, null}
    /\ sample.grooveDescription = NoString

C27_BareSampleAtMostHalf ==
    (scored.calls = 1 /\ C27_Bare(scored.sample)) =>
        (~scored.trigger /\ ~DGt(scored.totalScore, D05))

\* Such a sample does not fire; and one whose energy level is undefined
\* scores at most 0.5
C27_BareSampleNeverFires ==
    (scored.calls = 1 /\ C27_Bare(scored.sample)) =>
        /\ ~scored.trigger
        /\ scored.sample.energyLevel = NoNumber => ~DGt(scored.totalScore, D05)

\* An fx with nothing but its type, scored exactly 0.5 against a snapshot
\* without beat density
C27_BareFxScoredHalf ==
    /\ scored.calls = 1 /\ C27_Bare(scored.sample)
    /\ scored.sample.sampleType = "fx" /\ scored.sample.energyLevel = NoNumber
    /\ scored.context.key = "C" /\ scored.context.energy = D08
    /\ scored.totalScore = D05

\* A one-shot with nothing but its type and a null energy level, scored
\* above 0.5 against a snapshot of energy 0.2
C27_NullEnergyLevelAboveHalf ==
    /\ scored.calls = 1 /\ C27_Bare(scored.sample)
    /\ scored.sample.energyLevel = null
    /\ scored.context.energy = D02
    /\ DGt(scored.totalScore, D05)
    /\ ~scored.trigger

----------------------------------------------------------------------------
(* Properties of the firing loop and of the rate limit *)

C25_PlaysOf(p, id) == {c \in plays : c.pass = p /\ c.id = id}
C25_CallbacksOf(p, id) == {cb \in callbacks : cb.pass = p /\ cb.id = id}

\* Every call of the observer is for a sample its pass selected, comes after
\* the play command of that pass for that sample and after the firing time
\* was recorded, and has the context of the pass and the playbackConfig of the
\* play command; and no pass plays a sample or reports it twice.
C25_CallbackAfterPlayAndRecord ==
    /\ \A cb \in callbacks :
           /\ \E k \in 1..Len(passes[cb.pass].selected) :
                  passes[cb.pass].selected[k].id = cb.id
           /\ \E c \in plays : /\ c.pass = cb.pass /\ c.id = cb.id
                                /\ c.t <= cb.t /\ c.config = cb.config
           /\ cb.id \in DOMAIN lastTriggerTimes /\ lastTriggerTimes[cb.id] >= cb.t
           /\ cb.context = passes[cb.pass].context
    /\ \A p \in 1..Len(passes), id \in SampleIds :
           Cardinality(C25_PlaysOf(p, id)) <= 1 /\ Cardinality(C25_CallbacksOf(p, id)) <= 1

\* C25: at every moment the observer has been called only as
\* C25_CallbackAfterPlayAndRecord says, and when a pass has ended, each
\* sample it selected to fire has had one play command, its firing time
\* recorded at the time of the observer call or later, and one observer call.
C25_EveryFiringPlayedRecordedReported ==
    /\ C25_CallbackAfterPlayAndRecord
    /\ \A p \in Finished : \A k \in 1..Len(passes[p].selected) :
           /\ Cardinality(C25_PlaysOf(p, passes[p].selected[k].id)) = 1
           /\ Cardinality(C25_CallbacksOf(p, passes[p].selected[k].id)) = 1

\* The same for the passes that ended without a failed play
C25_EveryFiringOfAPassWithoutFailure ==
    /\ C25_CallbackAfterPlayAndRecord
    /\ \A p \in Finished : passes[p].state = "done" =>
           \A k \in 1..Len(passes[p].selected) :
               /\ Cardinality(C25_PlaysOf(p, passes[p].selected[k].id)) = 1
               /\ Cardinality(C25_CallbacksOf(p, passes[p].selected[k].id)) = 1

\* A pass that selected two samples has ended, both played and reported
C25_TwoFiringsReported ==
    \E p \in Finished :
        /\ passes[p].state = "done"
        /\ Len(passes[p].selected) = 2
        /\ \A k \in 1..2 : C25_CallbacksOf(p, passes[p].selected[k].id) # {}

\* A pass has ended with the play of a sample rejected: the sample was
\* played, its time was not recorded and the observer was not called
C25_RejectedPlayNotReported ==
    \E f \in failures :
        /\ passes[f.pass].state = "error"
        /\ C25_PlaysOf(f.pass, f.id) # {}
        /\ C25_CallbacksOf(f.pass, f.id) = {}
        /\ f.id \notin DOMAIN lastTriggerTimes

\* C28: a step that replaces the catalog leaves lastTriggerTimes as it is;
\* no step takes an entry out of lastTriggerTimes; and a pass selects no
\* sample for which a firing time was recorded less than minimumIntervalMs
\* before the pass, whatever was done to the catalog meanwhile.
C28_RateLimitSurvivesReplacement ==
    [][ /\ (samples' # samples \/ newSamples' # newSamples)
              => lastTriggerTimes' = lastTriggerTimes
        /\ DOMAIN lastTriggerTimes \subseteq DOMAIN lastTriggerTimes'
        /\ Len(passes') > Len(passes) =>
              \A k \in 1..Len(passes'[Len(passes')].selected) :
                  \A cb \in callbacks :
                      cb.id = passes'[Len(passes')].selected[k].id
                        => now - cb.t >= minInterval(SampleOf(cb.id)) ]_vars

\* A sample was fired by the first pass and taken out of the catalog (the
\* second pass started without it); it is back in the catalog, its firing
\* time is still recorded, and less than minimumIntervalMs after the firing
\* shouldTriggerSample refuses it, though it would fire had it never fired
C28_ReAddedSampleStillBlocked ==
    \E id \in DOMAIN lastTriggerTimes :
        /\ Len(passes) = 2
        /\ \E cb \in callbacks : cb.id = id /\ cb.pass = 1 /\ cb.t <= passes[2].start
        /\ \A k \in 1..Len(passes[2].catalog) : passes[2].catalog[k] # id
        /\ \E k \in 1..Len(samples) : samples[k] = id
        /\ now - lastTriggerTimes[id] < minInterval(SampleOf(id))
        /\ shouldTriggerSample(SampleOf(id), passes[1].context, now, [i \in {} |-> 0]).trigger
        /\ ~shouldTriggerSample(SampleOf(id), passes[1].context, now, lastTriggerTimes).trigger

----------------------------------------------------------------------------
(* Properties of the cadence and of the window of the aggregator *)

\* C29: a handleNewLyriaAudioBuffer call that starts a cycle sets
\* lastAnalysisTime to the current time and throws nothing, whether the cycle
\* goes on to the analyzer or is rejected on the way; a cycle that ends,
\* delivered or failed, changes neither lastAnalysisTime nor what the call
\* did; and a cycle starts only more than 500 ms after the start of every
\* cycle before it, whatever became of that cycle.
C29_StartSetsTimeWhateverFollows ==
    [][ /\ (ingested' # ingested /\ lastCall'.started) =>
              (lastAnalysisTime' = now /\ ~lastCall'.threw)
        /\ (cycles' # cycles /\ Len(cycles') = Len(cycles)) =>
              UNCHANGED <<lastAnalysisTime, lastCall, ingested>>
        /\ Len(cycles') > Len(cycles) =>
              \A j \in 1..Len(cycles) : now - cycles[j].start > analysisIntervalMs ]_vars

\* The first cycle failed in the analyzer, the second was rejected on the
\* way, each more than 500 ms after the one before, and a buffer that came
\* within 500 ms of the rejected one has started no cycle
C29_FailedAndRejectedNotRetried ==
    /\ Len(cycles) = 2
    /\ cycles[1].state = "failed" /\ cycles[2].state = "rejected"
    /\ cycles[2].start - cycles[1].start > analysisIntervalMs
    /\ lastAnalysisTime = cycles[2].start
    /\ ingested = 3 /\ lastCall.len > 0 /\ ~lastCall.started
    /\ now - cycles[2].start <= analysisIntervalMs

\* C30: a handleNewLyriaAudioBuffer call given one buffer longer than
\* maxBufferDurationSecs leaves the queue empty and accumulatedBufferLength 0,
\* having evicted the buffer it appended with all that was queued before it,
\* and starts no cycle: cycles and lastAnalysisTime stay as they were,
\* however long ago the previous cycle started.
C30_OversizedBufferEvictedNoCycle ==
    [][ (ingested' # ingested /\ lastCall'.len > maxBufferDurationSecs * sampleRate) =>
            /\ audioBufferQueue' = <<>>
            /\ accumulatedBufferLength' = 0
            /\ lastCall'.evicted = Len(audioBufferQueue) + 1
            /\ ~lastCall'.started
            /\ UNCHANGED <<cycles, lastAnalysisTime>> ]_vars

\* The latest call was given a 2.1 s buffer more than 500 ms after the start
\* of the only cycle so far, with a buffer still queued: both are gone and no
\* second cycle has started
C30_OversizedAfterTheInterval ==
    /\ lastCall.len > maxBufferDurationSecs * sampleRate
    /\ lastCall.evicted >= 2
    /\ Len(cycles) = 1
    /\ lastAnalysisTime = cycles[1].start
    /\ now - lastAnalysisTime > analysisIntervalMs
    /\ audioBufferQueue = <<>> /\ accumulatedBufferLength = 0
    /\ ~lastCall.started
====
